---- MODULE Spec2Model ----
(***************************************************************************)
(* A model of DataManager (src/models/data_manager.py): the in-memory      *)
(* document self.data, the JSON store file, and the repository methods.    *)
(*                                                                         *)
(* Python values are modelled by value: a dict is a function (a record at  *)
(* the top level, whose DOMAIN is the set of keys present), a list is a    *)
(* sequence, None is the string NoneVal, str(uuid.uuid4()) is the next     *)
(* value of a counter (fresh, never reused), datetime.now().isoformat() is *)
(* a reading of a monotone clock that is seen to advance whenever an       *)
(* identifier is drawn, and a float holding a whole number is that integer *)
(* (the input layer steps percentages by 1.0).                             *)
(***************************************************************************)
EXTENDS Integers, Sequences, FiniteSets, TLC

\* ------------------------------------------------------------------ bounds
\* How many identifiers uuid.uuid4() hands out in one run.
MaxIds == 3
\* How many file writes in a row the environment lets fail.
MaxWriteFailures == 1

\* ------------------------------------------------------------- input sets
NoneVal == "<None>"
PeriodNames == {"2024-Q1", "2024-Q2"}
\* create_period / set_current_period arguments: known names and the empty one.
NameArgs == PeriodNames \cup {""}
\* add_goal(weight): the storage layer does not re-validate the 1..10 range.
Weights == {-1, 2}
\* add_achievement_item / update_achievement_item(percentage)
Percentages == {40, 70}
Contents == {"Signed client A"}
UpdatedContents == {"Signed client B"}
Titles == {"Increase sales 20%"}
Deadlines == {"2024-03-31"}
Descriptions == {""}
ApiKeys == {"", "sk-1"}
\* Identifiers found in imported legacy documents (never produced by uuid4 here).
LegacyIds == {101, 102, 103}
NewIds == 1..MaxIds

\* ---------------------------------------------------------------- helpers
EmptyMap == [x \in {} |-> x]
MapPut(f, k, v) == [x \in (DOMAIN f) \cup {k} |-> IF x = k THEN v ELSE f[x]]
MapDel(f, k) == [x \in (DOMAIN f) \ {k} |-> f[x]]
HasKey(d, k) == k \in DOMAIN d
\* Python truthiness of a str-or-None value
Truthy(v) == v # NoneVal /\ v # ""

RECURSIVE SumSeq(_)
SumSeq(s) == IF s = <<>> THEN 0 ELSE Head(s) + SumSeq(Tail(s))
Min(a, b) == IF a <= b THEN a ELSE b

\* [g for g in goals if g['id'] != goal_id], also used for item lists
RECURSIVE FilterOutId(_, _)
FilterOutId(s, id) ==
  IF s = <<>> THEN <<>>
  ELSE IF Head(s).id # id THEN <<Head(s)>> \o FilterOutId(Tail(s), id)
       ELSE FilterOutId(Tail(s), id)

IdsOf(s) == {s[i].id : i \in 1..Len(s)}

\* --------------------------------------------------------- default document
get_default_data ==
  [periods |-> EmptyMap,
   current_period |-> NoneVal,
   settings |-> [claude_api_key |-> ""],
   version |-> "2.0"]

EmptyAchievement == [items |-> <<>>, total_percentage |-> 0]


\* ------------------------------------------------------------- JSON text
(* A JSON text is a record with a kind: malformed text (also an empty or   *)
(* partly written file), a well-formed array or number, or an object given *)
(* by its members <<key, value>> in order. Inside an object, the periods   *)
(* object and each achievements object are member sequences as well; a     *)
(* JSON array is a sequence and a small fixed-shape object a record.       *)
NoFile == [kind |-> "nofile"]
Malformed == [kind |-> "malformed"]
JsonArray == [kind |-> "array"]
JsonNumber == [kind |-> "number"]
JsonObject(m) == [kind |-> "object", members |-> m]

TopKeys == <<"periods", "current_period", "settings", "version">>

\* the members of dict f, one <<key, value>> per key
RECURSIVE ToMembers(_, _)
ToMembers(f, keys) ==
  IF keys = {} THEN <<>>
  ELSE LET k == CHOOSE x \in keys : TRUE
       IN <<<<k, f[k]>>>> \o ToMembers(f, keys \ {k})

\* the dict of a member sequence; a repeated key keeps its last value
FromMembers(m) ==
  [k \in {m[i][1] : i \in 1..Len(m)} |->
     m[CHOOSE i \in 1..Len(m) :
         m[i][1] = k /\ \A j \in (i+1)..Len(m) : m[j][1] # k][2]]

PeriodToJson(p) == [p EXCEPT !.achievements = ToMembers(@, DOMAIN @)]
PeriodFromJson(pj) == [pj EXCEPT !.achievements = FromMembers(@)]

ValueToJson(k, v) ==
  IF k = "periods"
  THEN ToMembers([n \in DOMAIN v |-> PeriodToJson(v[n])], DOMAIN v)
  ELSE v
ValueFromJson(k, v) ==
  IF k = "periods"
  THEN LET f == FromMembers(v) IN [n \in DOMAIN f |-> PeriodFromJson(f[n])]
  ELSE v

RECURSIVE TopMembers(_, _)
TopMembers(d, i) ==
  IF i > Len(TopKeys) THEN <<>>
  ELSE (IF HasKey(d, TopKeys[i])
        THEN <<<<TopKeys[i], ValueToJson(TopKeys[i], d[TopKeys[i]])>>>>
        ELSE <<>>) \o TopMembers(d, i + 1)

\* json.dumps(self.data) / json.dump(self.data, f)
json_dumps(d) == JsonObject(TopMembers(d, 1))

\* json.loads / json.load of a well-formed object text
json_loads(t) ==
  LET f == FromMembers(t.members)
  IN [k \in DOMAIN f |-> ValueFromJson(k, f[k])]

\* ---------------------------------------------------------------- results
(* What a method call does: it raises exc (leaving d as mutated so far),   *)
(* or returns ret without writing, or ends in `return self.save_data()`.   *)
Raise(e, d) == [exc |-> e, d |-> d, save |-> FALSE, ret |-> "Raised", val |-> <<0, 1>>, ids |-> 0]
Return(r, d) == [exc |-> "none", d |-> d, save |-> FALSE, ret |-> r, val |-> <<0, 1>>, ids |-> 0]
Value(v, d) == [exc |-> "none", d |-> d, save |-> FALSE, ret |-> "Value", val |-> v, ids |-> 0]
\* ids: how many uuid4 identifiers the call drew
ReturnSave(d, n) == [exc |-> "none", d |-> d, save |-> TRUE, ret |-> "Saved", val |-> <<0, 1>>, ids |-> n]

\* -------------------------------------------------------- repository methods
\* get_current_period_data raises KeyError: a top-level key it reads is missing
CurrentKeyError(d) ==
  \/ ~HasKey(d, "current_period")
  \/ (Truthy(d.current_period) /\ ~HasKey(d, "periods"))

\* get_current_period_data returns a period (not None); evaluated only when
\* CurrentKeyError(d) is false
HasCurrent(d) ==
  /\ Truthy(d.current_period)
  /\ d.current_period \in DOMAIN d.periods

\* the dict get_current_period_data returns a reference to
get_current_period_data(d) == d.periods[d.current_period]

\* self.data["periods"][current_period] = p, through that reference
SetCurrent(d, p) == [d EXCEPT !.periods[d.current_period] = p]

\* self.data[k] = v
SetKey(d, k, v) == [x \in (DOMAIN d) \cup {k} |-> IF x = k THEN v ELSE d[x]]

\* create_period starting an existing period afresh instead of refusing
create_period_Resets(d, period_name, now) ==
  IF period_name = "" THEN Return("False", d)
  ELSE IF ~HasKey(d, "periods") THEN Raise("KeyError", d)
  ELSE LET p == [goals |-> <<>>, achievements |-> EmptyMap, created_at |-> now]
           d1 == [d EXCEPT !.periods = MapPut(@, period_name, p)]
       IN ReturnSave(SetKey(d1, "current_period", period_name), 0)

create_period(d, period_name, now) ==
  IF period_name = "" THEN Return("False", d)
  ELSE IF ~HasKey(d, "periods") THEN Raise("KeyError", d)
  ELSE IF period_name \notin DOMAIN d.periods
  THEN LET p == [goals |-> <<>>, achievements |-> EmptyMap, created_at |-> now]
           d1 == [d EXCEPT !.periods = MapPut(@, period_name, p)]
       IN ReturnSave(SetKey(d1, "current_period", period_name), 0)
  ELSE Return("False", d)

\* set_current_period without the membership test
set_current_period_Unchecked(d, period_name) ==
  IF ~HasKey(d, "periods") THEN Raise("KeyError", d)
  ELSE ReturnSave(SetKey(d, "current_period", period_name), 0)

\* set_current_period returning True without calling save_data
set_current_period_NoSave(d, period_name) ==
  IF ~HasKey(d, "periods") THEN Raise("KeyError", d)
  ELSE IF period_name \in DOMAIN d.periods
  THEN Return("True", SetKey(d, "current_period", period_name))
  ELSE Return("False", d)

set_current_period(d, period_name) ==
  IF ~HasKey(d, "periods") THEN Raise("KeyError", d)
  ELSE IF period_name \in DOMAIN d.periods
  THEN ReturnSave(SetKey(d, "current_period", period_name), 0)
  ELSE Return("False", d)

\* add_goal without the empty achievement entry for the new goal
add_goal_NoAchievement(d, title, weight, deadline, description, goal_id, now) ==
  IF CurrentKeyError(d) THEN Raise("KeyError", d)
  ELSE IF ~HasCurrent(d) THEN Return("False", d)
  ELSE LET cur == get_current_period_data(d)
           new_goal == [id |-> goal_id, title |-> title, weight |-> weight,
                        deadline |-> deadline, description |-> description,
                        created_at |-> now]
       IN ReturnSave(SetCurrent(d, [cur EXCEPT !.goals = Append(@, new_goal)]), 1)

add_goal(d, title, weight, deadline, description, goal_id, now) ==
  IF CurrentKeyError(d) THEN Raise("KeyError", d)
  ELSE IF ~HasCurrent(d) THEN Return("False", d)
  ELSE LET cur == get_current_period_data(d)
           new_goal == [id |-> goal_id, title |-> title, weight |-> weight,
                        deadline |-> deadline, description |-> description,
                        created_at |-> now]
           p == [cur EXCEPT !.goals = Append(@, new_goal),
                            !.achievements = MapPut(@, goal_id, EmptyAchievement)]
       IN ReturnSave(SetCurrent(d, p), 1)

\* delete_goal that leaves the goal's achievement entry behind
delete_goal_KeepsAchievement(d, goal_id) ==
  IF CurrentKeyError(d) THEN Raise("KeyError", d)
  ELSE IF ~HasCurrent(d) THEN Return("False", d)
  ELSE LET cur == get_current_period_data(d)
       IN ReturnSave(SetCurrent(d, [cur EXCEPT !.goals = FilterOutId(@, goal_id)]), 0)

\* delete_goal removing the goal from every period
delete_goal_EveryPeriod(d, goal_id) ==
  IF CurrentKeyError(d) THEN Raise("KeyError", d)
  ELSE IF ~HasCurrent(d) THEN Return("False", d)
  ELSE ReturnSave([d EXCEPT !.periods =
                     [n \in DOMAIN @ |->
                        [@[n] EXCEPT !.goals = FilterOutId(@, goal_id),
                                     !.achievements = IF goal_id \in DOMAIN @
                                                      THEN MapDel(@, goal_id) ELSE @]]], 0)

delete_goal(d, goal_id) ==
  IF CurrentKeyError(d) THEN Raise("KeyError", d)
  ELSE IF ~HasCurrent(d) THEN Return("False", d)
  ELSE LET cur == get_current_period_data(d)
           p == [cur EXCEPT !.goals = FilterOutId(@, goal_id),
                            !.achievements = IF goal_id \in DOMAIN @
                                             THEN MapDel(@, goal_id) ELSE @]
       IN ReturnSave(SetCurrent(d, p), 0)

\* the total without the cap at 100
TotalOf_Uncapped(items) ==
  SumSeq([i \in 1..Len(items) |-> items[i].percentage])

\* total_percentage = min(sum(item["percentage"] for item in items), 100.0)
TotalOf(items) ==
  Min(SumSeq([i \in 1..Len(items) |-> items[i].percentage]), 100)

_recalculate_goal_percentage(d, goal_id) ==
  IF ~HasCurrent(d) \/ goal_id \notin DOMAIN get_current_period_data(d).achievements
  THEN d
  ELSE LET cur == get_current_period_data(d)
           total_percentage == TotalOf(cur.achievements[goal_id].items)
       IN SetCurrent(d, [cur EXCEPT !.achievements[goal_id].total_percentage =
                                      total_percentage])

\* add_achievement_item creating the achievement entry before it looks for
\* the goal
add_achievement_item_EntryFirst(d, goal_id, content, percentage, item_id, now) ==
  IF CurrentKeyError(d) THEN Raise("KeyError", d)
  ELSE IF ~HasCurrent(d) THEN Return("False", d)
  ELSE LET cur == get_current_period_data(d)
           goal_exists == \E i \in 1..Len(cur.goals) : cur.goals[i].id = goal_id
           ach0 == IF goal_id \in DOMAIN cur.achievements
                   THEN cur.achievements
                   ELSE MapPut(cur.achievements, goal_id, EmptyAchievement)
           new_item == [id |-> item_id, content |-> content,
                        percentage |-> percentage, created_at |-> now]
           ach1 == [ach0 EXCEPT ![goal_id].items = Append(@, new_item)]
           d1 == SetCurrent(d, [cur EXCEPT !.achievements = ach1])
       IN IF ~goal_exists THEN Return("False", SetCurrent(d, [cur EXCEPT !.achievements = ach0]))
          ELSE ReturnSave(_recalculate_goal_percentage(d1, goal_id), 1)

add_achievement_item(d, goal_id, content, percentage, item_id, now) ==
  IF CurrentKeyError(d) THEN Raise("KeyError", d)
  ELSE IF ~HasCurrent(d) THEN Return("False", d)
  ELSE LET cur == get_current_period_data(d)
           goal_exists == \E i \in 1..Len(cur.goals) : cur.goals[i].id = goal_id
           ach0 == IF goal_id \in DOMAIN cur.achievements
                   THEN cur.achievements
                   ELSE MapPut(cur.achievements, goal_id, EmptyAchievement)
           new_item == [id |-> item_id, content |-> content,
                        percentage |-> percentage, created_at |-> now]
           ach1 == [ach0 EXCEPT ![goal_id].items = Append(@, new_item)]
           d1 == SetCurrent(d, [cur EXCEPT !.achievements = ach1])
       IN IF ~goal_exists THEN Return("False", d)
          ELSE ReturnSave(_recalculate_goal_percentage(d1, goal_id), 1)

\* index of the first item whose id is item_id, 0 when the for loop ends
\* without a break
FirstIndex(items, item_id) ==
  IF \E i \in 1..Len(items) : items[i].id = item_id
  THEN CHOOSE i \in 1..Len(items) :
         items[i].id = item_id /\ \A j \in 1..(i-1) : items[j].id # item_id
  ELSE 0

update_achievement_item(d, goal_id, item_id, content, percentage, now) ==
  IF CurrentKeyError(d) THEN Raise("KeyError", d)
  ELSE IF ~HasCurrent(d) \/ goal_id \notin DOMAIN get_current_period_data(d).achievements
  THEN Return("False", d)
  ELSE LET cur == get_current_period_data(d)
           items == cur.achievements[goal_id].items
           i == FirstIndex(items, item_id)
           item == [id |-> items[i].id, content |-> content,
                    percentage |-> percentage,
                    created_at |-> items[i].created_at, updated_at |-> now]
           d1 == SetCurrent(d, [cur EXCEPT !.achievements[goal_id].items[i] = item])
       IN IF i = 0 THEN Return("False", d)
          ELSE ReturnSave(_recalculate_goal_percentage(d1, goal_id), 0)

\* delete_achievement_item reporting failure when it found no item to remove
delete_achievement_item_NotFound(d, goal_id, item_id) ==
  IF CurrentKeyError(d) THEN Raise("KeyError", d)
  ELSE IF ~HasCurrent(d) \/ goal_id \notin DOMAIN get_current_period_data(d).achievements
  THEN Return("False", d)
  ELSE LET cur == get_current_period_data(d)
           d1 == SetCurrent(d, [cur EXCEPT !.achievements[goal_id].items =
                                             FilterOutId(@, item_id)])
       IN IF item_id \notin IdsOf(cur.achievements[goal_id].items)
          THEN Return("False", d)
          ELSE ReturnSave(_recalculate_goal_percentage(d1, goal_id), 0)

\* delete_achievement_item without the call of _recalculate_goal_percentage
delete_achievement_item_NoRecalc(d, goal_id, item_id) ==
  IF CurrentKeyError(d) THEN Raise("KeyError", d)
  ELSE IF ~HasCurrent(d) \/ goal_id \notin DOMAIN get_current_period_data(d).achievements
  THEN Return("False", d)
  ELSE LET cur == get_current_period_data(d)
       IN ReturnSave(SetCurrent(d, [cur EXCEPT !.achievements[goal_id].items =
                                                 FilterOutId(@, item_id)]), 0)

delete_achievement_item(d, goal_id, item_id) ==
  IF CurrentKeyError(d) THEN Raise("KeyError", d)
  ELSE IF ~HasCurrent(d) \/ goal_id \notin DOMAIN get_current_period_data(d).achievements
  THEN Return("False", d)
  ELSE LET cur == get_current_period_data(d)
           d1 == SetCurrent(d, [cur EXCEPT !.achievements[goal_id].items =
                                             FilterOutId(@, item_id)])
       IN ReturnSave(_recalculate_goal_percentage(d1, goal_id), 0)

\* get_goals: the current period's goal list, [] without a current period
get_goals(d) == IF HasCurrent(d) THEN get_current_period_data(d).goals ELSE <<>>

\* get_achievements writes an empty entry into the document for every goal of
\* the current period that has none; this is the document afterwards
get_achievements_data(d) ==
  IF ~HasCurrent(d) THEN d
  ELSE LET cur == get_current_period_data(d)
       IN SetCurrent(d, [cur EXCEPT !.achievements =
            [g \in (DOMAIN @) \cup IdsOf(cur.goals) |->
               IF g \in DOMAIN @ THEN @[g] ELSE EmptyAchievement]])

\* and this is the dict it returns
get_achievements(d) ==
  IF ~HasCurrent(d) THEN EmptyMap
  ELSE get_current_period_data(get_achievements_data(d)).achievements

\* the for loop of calculate_achievement_rate from goal i on:
\* <<total_weighted_percentage, total_weight>>
RECURSIVE RateLoop(_, _, _, _, _)
RateLoop(goals, achievements, i, total_weighted_percentage, total_weight) ==
  IF i > Len(goals) THEN <<total_weighted_percentage, total_weight>>
  ELSE LET goal == goals[i]
           goal_percentage == IF goal.id \in DOMAIN achievements
                              THEN achievements[goal.id].total_percentage
                              ELSE 0
           weighted_percentage == goal.weight * goal_percentage
       IN RateLoop(goals, achievements, i + 1,
                   total_weighted_percentage + weighted_percentage,
                   total_weight + goal.weight)

\* calculate_achievement_rate guarding only against a zero total weight
calculate_achievement_rate_NonZero(d) ==
  IF CurrentKeyError(d) THEN Raise("KeyError", d)
  ELSE LET goals == get_goals(d)
           t == RateLoop(goals, get_achievements(d), 1, 0, 0)
       IN IF goals = <<>> \/ t[2] = 0 THEN Value(<<0, 1>>, get_achievements_data(d))
          ELSE Value(t, get_achievements_data(d))

\* The returned float is the fraction <<numerator, denominator>>, 0.0 is <<0, 1>>.
calculate_achievement_rate(d) ==
  IF CurrentKeyError(d) THEN Raise("KeyError", d)
  ELSE LET goals == get_goals(d)
           achievements == get_achievements(d)
           d1 == get_achievements_data(d)
           t == RateLoop(goals, achievements, 1, 0, 0)
       IN IF goals = <<>> THEN Value(<<0, 1>>, d1)
          ELSE IF t[2] > 0 THEN Value(t, d1)
          ELSE Value(<<0, 1>>, d1)

\* the for loop of get_statistics from goal i on:
\* <<completed_goals, partial_goals, total_achievement_items>>
RECURSIVE StatisticsLoop(_, _, _, _, _, _)
StatisticsLoop(goals, achievements, i, completed_goals, partial_goals, total_achievement_items) ==
  IF i > Len(goals) THEN <<completed_goals, partial_goals, total_achievement_items>>
  ELSE LET goal == goals[i]
           goal_percentage == IF goal.id \in DOMAIN achievements
                              THEN achievements[goal.id].total_percentage
                              ELSE 0
           goal_items == IF goal.id \in DOMAIN achievements
                         THEN Len(achievements[goal.id].items)
                         ELSE 0
       IN StatisticsLoop(goals, achievements, i + 1,
            IF goal_percentage >= 100 THEN completed_goals + 1 ELSE completed_goals,
            IF goal_percentage < 100 /\ goal_percentage > 0
            THEN partial_goals + 1 ELSE partial_goals,
            total_achievement_items + goal_items)

\* the dict get_statistics returns, from the loop's counts
Statistics(goals, counts, rate) ==
  [total_goals |-> Len(goals),
   completed_goals |-> counts[1],
   partial_goals |-> counts[2],
   total_weight |-> SumSeq([i \in 1..Len(goals) |-> goals[i].weight]),
   achievement_rate |-> rate,
   total_achievement_items |-> counts[3]]

\* get_statistics counting a goal without any progress as partial
get_statistics_ZeroIsPartial(d) ==
  IF CurrentKeyError(d) THEN Raise("KeyError", d)
  ELSE LET goals == get_goals(d)
           achievements == get_achievements(d)
           d1 == get_achievements_data(d)
           c == StatisticsLoop(goals, achievements, 1, 0, 0, 0)
       IN Value(Statistics(goals, <<c[1], Len(goals) - c[1], c[3]>>,
                           calculate_achievement_rate(d1).val), d1)

get_statistics(d) ==
  IF CurrentKeyError(d) THEN Raise("KeyError", d)
  ELSE LET goals == get_goals(d)
           achievements == get_achievements(d)
           d1 == get_achievements_data(d)
       IN IF goals = <<>>
          THEN Value([total_goals |-> 0, completed_goals |-> 0, partial_goals |-> 0,
                      total_weight |-> 0, achievement_rate |-> <<0, 1>>,
                      total_achievement_items |-> 0], d1)
          ELSE Value(Statistics(goals, StatisticsLoop(goals, achievements, 1, 0, 0, 0),
                                calculate_achievement_rate(d1).val), d1)

set_claude_api_key(d, api_key) ==
  IF ~HasKey(d, "settings") THEN Raise("KeyError", d)
  ELSE ReturnSave([d EXCEPT !.settings = MapPut(@, "claude_api_key", api_key)], 0)

export_data(d) == json_dumps(d)

\* ---------------------------------------------------------------- CSV export
(* The text csv.writer produces is modelled as the sequence of its rows, a  *)
(* row being the sequence of its fields before quoting; the empty string is *)
(* the text of no row. The header and placeholder texts are given in        *)
(* English for the Japanese literals of the source.                         *)

\* f"{x:.1f}" of a float holding a whole number
FormatPercent(x) == ToString(x) \o ".0"

\* created_at[:10], the date of an ISO timestamp without the time of day; two
\* consecutive readings of the clock fall on the same day
DatePart(created_at) == "day " \o ToString(created_at \div 2)

\* the literal written where a goal has no item (lines 371 and 446)
NotEntered == "(not entered)"

SummaryHeader ==
  <<"period", "goal id", "goal title", "weight", "deadline", "goal description",
    "achievement rate (%)", "item count", "item details", "created">>
DetailedHeader ==
  <<"period", "goal id", "goal title", "goal weight", "goal deadline",
    "goal description", "item id", "item content", "item rate (%)",
    "item created", "goal total rate (%)">>

\* achievements.get(goal_id, {}) followed by .get('total_percentage', 0.0)
\* and .get('items', [])
TotalPercentageOf(achievements, goal_id) ==
  IF goal_id \in DOMAIN achievements THEN achievements[goal_id].total_percentage ELSE 0
ItemsOfGoal(achievements, goal_id) ==
  IF goal_id \in DOMAIN achievements THEN achievements[goal_id].items ELSE <<>>

\* the entries of achievement_details from item i on, numbered from 0
RECURSIVE AchievementDetails_FromZero(_, _)
AchievementDetails_FromZero(items, i) ==
  IF i > Len(items) THEN <<>>
  ELSE <<ToString(i - 1) \o ". " \o items[i].content \o " ("
           \o FormatPercent(items[i].percentage) \o "%)">>
       \o AchievementDetails_FromZero(items, i + 1)

\* the entries of achievement_details from item i on (enumerate(items, 1))
RECURSIVE AchievementDetails(_, _)
AchievementDetails(items, i) ==
  IF i > Len(items) THEN <<>>
  ELSE <<ToString(i) \o ". " \o items[i].content \o " ("
           \o FormatPercent(items[i].percentage) \o "%)">>
       \o AchievementDetails(items, i + 1)

\* sep.join(parts)
RECURSIVE Join(_, _)
Join(parts, sep) ==
  IF parts = <<>> THEN ""
  ELSE IF Len(parts) = 1 THEN parts[1]
  ELSE parts[1] \o sep \o Join(Tail(parts), sep)

SummaryRow(period_name, goal, achievements) ==
  LET items == ItemsOfGoal(achievements, goal.id)
      achievement_details == AchievementDetails(items, 1)
  IN <<period_name, goal.id, goal.title, ToString(goal.weight), goal.deadline,
       goal.description,
       FormatPercent(TotalPercentageOf(achievements, goal.id)),
       ToString(Len(items)),
       IF achievement_details # <<>> THEN Join(achievement_details, " | ")
       ELSE NotEntered,
       DatePart(goal.created_at)>>

\* the row of a goal without items, with blank percentage fields
EmptyGoalRow_BlankPercent(period_name, goal) ==
  <<period_name, goal.id, goal.title, ToString(goal.weight), goal.deadline,
    goal.description, "", NotEntered, "", "", "">>

\* the row of a goal without items (lines 438-450)
EmptyGoalRow(period_name, goal) ==
  <<period_name, goal.id, goal.title, ToString(goal.weight), goal.deadline,
    goal.description, "", NotEntered, "0.0", "", "0.0">>

ItemRow(period_name, goal, item, total_percentage) ==
  <<period_name, goal.id, goal.title, ToString(goal.weight), goal.deadline,
    goal.description, item.id, item.content, FormatPercent(item.percentage),
    DatePart(item.created_at), FormatPercent(total_percentage)>>

\* the rows of one goal, a goal without items giving none
DetailedGoalRows_SkipsEmpty(period_name, goal, achievements) ==
  LET items == ItemsOfGoal(achievements, goal.id)
  IN [k \in 1..Len(items) |->
        ItemRow(period_name, goal, items[k], TotalPercentageOf(achievements, goal.id))]

\* the rows of one goal in export_csv_detailed
DetailedGoalRows(period_name, goal, achievements) ==
  LET items == ItemsOfGoal(achievements, goal.id)
  IN IF items # <<>>
     THEN [k \in 1..Len(items) |->
             ItemRow(period_name, goal, items[k],
                     TotalPercentageOf(achievements, goal.id))]
     ELSE <<EmptyGoalRow(period_name, goal)>>

RECURSIVE SummaryRows(_, _, _, _)
SummaryRows(period_name, goals, achievements, i) ==
  IF i > Len(goals) THEN <<>>
  ELSE <<SummaryRow(period_name, goals[i], achievements)>>
       \o SummaryRows(period_name, goals, achievements, i + 1)

RECURSIVE DetailedRows(_, _, _, _)
DetailedRows(period_name, goals, achievements, i) ==
  IF i > Len(goals) THEN <<>>
  ELSE DetailedGoalRows(period_name, goals[i], achievements)
       \o DetailedRows(period_name, goals, achievements, i + 1)

\* export_csv_summary exporting the current period when the name is unknown
export_csv_summary_FallsBack(d, period_name) ==
  IF ~HasKey(d, "current_period") \/ ~HasKey(d, "periods") THEN Raise("KeyError", d)
  ELSE LET name == IF period_name = NoneVal \/ period_name \notin DOMAIN d.periods
                   THEN d.current_period ELSE period_name
       IN IF ~Truthy(name) \/ name \notin DOMAIN d.periods THEN Value(<<>>, d)
          ELSE Value(<<SummaryHeader>>
                     \o SummaryRows(name, d.periods[name].goals,
                                    d.periods[name].achievements, 1), d)

\* period_name None stands for the argument left out
export_csv_summary(d, period_name) ==
  IF period_name = NoneVal /\ ~HasKey(d, "current_period") THEN Raise("KeyError", d)
  ELSE LET name == IF period_name = NoneVal THEN d.current_period ELSE period_name
       IN IF ~Truthy(name) THEN Value(<<>>, d)
          ELSE IF ~HasKey(d, "periods") THEN Raise("KeyError", d)
          ELSE IF name \notin DOMAIN d.periods THEN Value(<<>>, d)
          ELSE Value(<<SummaryHeader>>
                     \o SummaryRows(name, d.periods[name].goals,
                                    d.periods[name].achievements, 1), d)

export_csv_detailed(d, period_name) ==
  IF period_name = NoneVal /\ ~HasKey(d, "current_period") THEN Raise("KeyError", d)
  ELSE LET name == IF period_name = NoneVal THEN d.current_period ELSE period_name
       IN IF ~Truthy(name) THEN Value(<<>>, d)
          ELSE IF ~HasKey(d, "periods") THEN Raise("KeyError", d)
          ELSE IF name \notin DOMAIN d.periods THEN Value(<<>>, d)
          ELSE Value(<<DetailedHeader>>
                     \o DetailedRows(name, d.periods[name].goals,
                                     d.periods[name].achievements, 1), d)

\* ---------------------------------------------------------------- migration
\* `achievement_text and achievement_text.strip()` is falsy
BlankTexts == {"", "  "}
IsBlank(text) == text \in BlankTexts

RECURSIVE SeqOfSet(_)
SeqOfSet(S) ==
  IF S = {} THEN <<>>
  ELSE LET x == CHOOSE y \in S : TRUE IN <<x>> \o SeqOfSet(S \ {x})

PositionIn(s, x) == CHOOSE i \in 1..Len(s) : s[i] = x

\* old_data.get("periods", {}) and period_data.get("achievements", {})
OldPeriods(old_data) == IF HasKey(old_data, "periods") THEN old_data.periods ELSE EmptyMap
OldAchievements(period_data) ==
  IF HasKey(period_data, "achievements") THEN period_data.achievements ELSE EmptyMap

\* the <<period, goal id>> pairs that get an item, in the order their
\* uuid4 identifiers are drawn
MigratedPairs(old_data) ==
  SeqOfSet({pg \in UNION {{<<n, g>> : g \in DOMAIN OldAchievements(OldPeriods(old_data)[n])} :
                          n \in DOMAIN OldPeriods(old_data)} :
              ~IsBlank(OldAchievements(OldPeriods(old_data)[pg[1]])[pg[2]])})

\* _migrate_data_v1_to_v2 crediting the migrated item with nothing
_migrate_data_v1_to_v2_ZeroPercent(old_data, first_id, now) ==
  LET pairs == MigratedPairs(old_data)
      NewAchievement(n, g, text) ==
        IF ~IsBlank(text)
        THEN [items |-> <<[id |-> first_id + PositionIn(pairs, <<n, g>>) - 1,
                           content |-> text, percentage |-> 0,
                           created_at |-> now]>>,
              total_percentage |-> 0]
        ELSE [items |-> <<>>, total_percentage |-> 0]
      NewPeriod(n, period_data) ==
        [goals |-> IF HasKey(period_data, "goals") THEN period_data.goals ELSE <<>>,
         achievements |-> [g \in DOMAIN OldAchievements(period_data) |->
                             NewAchievement(n, g, OldAchievements(period_data)[g])],
         created_at |-> IF HasKey(period_data, "created_at")
                        THEN period_data.created_at ELSE now]
  IN [periods |-> [n \in DOMAIN OldPeriods(old_data) |->
                     NewPeriod(n, OldPeriods(old_data)[n])],
      current_period |-> IF HasKey(old_data, "current_period")
                         THEN old_data.current_period ELSE NoneVal,
      settings |-> IF HasKey(old_data, "settings") THEN old_data.settings ELSE EmptyMap,
      version |-> "2.0"]

\* _migrate_data_v1_to_v2 keeping the settings and the selection of the
\* default document
_migrate_data_v1_to_v2_FreshSettings(old_data, first_id, now) ==
  LET pairs == MigratedPairs(old_data)
      NewAchievement(n, g, text) ==
        IF ~IsBlank(text)
        THEN [items |-> <<[id |-> first_id + PositionIn(pairs, <<n, g>>) - 1,
                           content |-> text, percentage |-> 100,
                           created_at |-> now]>>,
              total_percentage |-> 100]
        ELSE [items |-> <<>>, total_percentage |-> 0]
      NewPeriod(n, period_data) ==
        [goals |-> IF HasKey(period_data, "goals") THEN period_data.goals ELSE <<>>,
         achievements |-> [g \in DOMAIN OldAchievements(period_data) |->
                             NewAchievement(n, g, OldAchievements(period_data)[g])],
         created_at |-> IF HasKey(period_data, "created_at")
                        THEN period_data.created_at ELSE now]
  IN [periods |-> [n \in DOMAIN OldPeriods(old_data) |->
                     NewPeriod(n, OldPeriods(old_data)[n])],
      current_period |-> get_default_data.current_period,
      settings |-> get_default_data.settings,
      version |-> "2.0"]

\* first_id: the first identifier uuid4 hands out during the migration
_migrate_data_v1_to_v2(old_data, first_id, now) ==
  LET pairs == MigratedPairs(old_data)
      NewAchievement(n, g, text) ==
        IF ~IsBlank(text)
        THEN [items |-> <<[id |-> first_id + PositionIn(pairs, <<n, g>>) - 1,
                           content |-> text, percentage |-> 100,
                           created_at |-> now]>>,
              total_percentage |-> 100]
        ELSE [items |-> <<>>, total_percentage |-> 0]
      NewPeriod(n, period_data) ==
        [goals |-> IF HasKey(period_data, "goals") THEN period_data.goals ELSE <<>>,
         achievements |-> [g \in DOMAIN OldAchievements(period_data) |->
                             NewAchievement(n, g, OldAchievements(period_data)[g])],
         created_at |-> IF HasKey(period_data, "created_at")
                        THEN period_data.created_at ELSE now]
  IN [periods |-> [n \in DOMAIN OldPeriods(old_data) |->
                     NewPeriod(n, OldPeriods(old_data)[n])],
      current_period |-> IF HasKey(old_data, "current_period")
                         THEN old_data.current_period ELSE NoneVal,
      settings |-> IF HasKey(old_data, "settings") THEN old_data.settings ELSE EmptyMap,
      version |-> "2.0"]

\* `not data.get("version") or data.get("version") == "1.0"`
NeedsMigration(doc) ==
  \/ ~HasKey(doc, "version")
  \/ ~Truthy(doc.version)
  \/ doc.version = "1.0"

\* import_data falling back to the default document on malformed text
import_data_ResetsOnMalformed(d, json_data, first_id, now) ==
  IF json_data.kind = "malformed" THEN Return("False", get_default_data)
  ELSE IF json_data.kind # "object" THEN Raise("AttributeError", d)
  ELSE LET imported_data == json_loads(json_data)
       IN IF NeedsMigration(imported_data)
          THEN ReturnSave(_migrate_data_v1_to_v2(imported_data, first_id, now),
                          Len(MigratedPairs(imported_data)))
          ELSE ReturnSave(imported_data, 0)

\* import_data that deselects the current period of the document it adopts
import_data_ClearsSelection(d, json_data, first_id, now) ==
  IF json_data.kind = "malformed" THEN Return("False", d)
  ELSE IF json_data.kind # "object" THEN Raise("AttributeError", d)
  ELSE LET imported_data == json_loads(json_data)
       IN IF NeedsMigration(imported_data)
          THEN ReturnSave(_migrate_data_v1_to_v2(imported_data, first_id, now),
                          Len(MigratedPairs(imported_data)))
          ELSE ReturnSave(SetKey(imported_data, "current_period", NoneVal), 0)

import_data(d, json_data, first_id, now) ==
  IF json_data.kind = "malformed" THEN Return("False", d)
  ELSE IF json_data.kind # "object" THEN Raise("AttributeError", d)
  ELSE LET imported_data == json_loads(json_data)
       IN IF NeedsMigration(imported_data)
          THEN ReturnSave(_migrate_data_v1_to_v2(imported_data, first_id, now),
                          Len(MigratedPairs(imported_data)))
          ELSE ReturnSave(imported_data, 0)

\* what is in self.data when the constructor raised: there is no repository
NoInstance == [instance |-> NoneVal]

\* load_data that returns the migrated document without writing it back
load_data_NoSave(f, first_id, now) ==
  IF f.kind = "nofile" \/ f.kind = "malformed"
  THEN [exc |-> "none", d |-> get_default_data, save |-> FALSE, ids |-> 0, migrated |-> FALSE]
  ELSE IF f.kind # "object"
  THEN [exc |-> "AttributeError", d |-> NoInstance, save |-> FALSE, ids |-> 0, migrated |-> FALSE]
  ELSE LET loaded == json_loads(f)
       IN IF NeedsMigration(loaded)
          THEN [exc |-> "none", d |-> _migrate_data_v1_to_v2(loaded, first_id, now),
                save |-> FALSE, ids |-> Len(MigratedPairs(loaded)), migrated |-> TRUE]
          ELSE [exc |-> "none", d |-> loaded, save |-> FALSE, ids |-> 0, migrated |-> FALSE]

(* load_data, called by the constructor on the store file f: the document   *)
(* it returns (d), whether it migrated, and whether it called save_data,    *)
(* whose result it drops. A text json.load rejects gives the default        *)
(* document like a missing file; a well-formed text that is no object makes *)
(* data.get raise AttributeError, which the except clause does not catch.   *)
load_data(f, first_id, now) ==
  IF f.kind = "nofile" \/ f.kind = "malformed"
  THEN [exc |-> "none", d |-> get_default_data, save |-> FALSE, ids |-> 0, migrated |-> FALSE]
  ELSE IF f.kind # "object"
  THEN [exc |-> "AttributeError", d |-> NoInstance, save |-> FALSE, ids |-> 0, migrated |-> FALSE]
  ELSE LET loaded == json_loads(f)
       IN IF NeedsMigration(loaded)
          THEN [exc |-> "none", d |-> _migrate_data_v1_to_v2(loaded, first_id, now),
                save |-> TRUE, ids |-> Len(MigratedPairs(loaded)), migrated |-> TRUE]
          ELSE [exc |-> "none", d |-> loaded, save |-> FALSE, ids |-> 0, migrated |-> FALSE]

\* ------------------------------------------------------------ import inputs
LegacyGoal(id) ==
  [id |-> id, title |-> "Increase sales 20%", weight |-> 2,
   deadline |-> "2024-03-31", description |-> "", created_at |-> 0]

\* A version 1 store: no version tag, one string per goal in achievements;
\* goal 103 has no achievement record at all.
LegacyText ==
  JsonObject(<<
    <<"periods", <<
       <<"2024-Q1", [goals |-> <<LegacyGoal(101), LegacyGoal(102), LegacyGoal(103)>>,
                     achievements |-> << <<101, "Shipped v1">>, <<102, "  ">> >>]>> >> >>,
    <<"current_period", "2024-Q1">>,
    <<"settings", [claude_api_key |-> "sk-1"]>> >>)

\* A well-formed object tagged 2.0 that has no periods field.
NoPeriodsText == JsonObject(<< <<"version", "2.0">> >>)

\* The same version 1 store carrying the legacy tag.
TaggedLegacyText == JsonObject(LegacyText.members \o << <<"version", "1.0">> >>)

\* what the store file may hold when the first process starts
StoreFiles == {NoFile, Malformed, JsonArray, JsonNumber, LegacyText, TaggedLegacyText}

\* A version 2.0 backup in which an achievement entry (104, holding item 105)
\* outlived its goal: the goal list holds goal 101 only.
OrphanDoc ==
  [periods |-> ("2024-Q1" :>
     [goals |-> <<LegacyGoal(101)>>,
      achievements |->
        (101 :> EmptyAchievement
         @@ 104 :> [items |-> <<[id |-> 105, content |-> "Shipped v1",
                                 percentage |-> 40, created_at |-> 0]>>,
                    total_percentage |-> 40]),
      created_at |-> 0]),
   current_period |-> "2024-Q1",
   settings |-> [claude_api_key |-> ""],
   version |-> "2.0"]
OrphanText == json_dumps(OrphanDoc)

ImportLabels == {"malformed", "array", "number", "no_periods", "legacy", "exported"}

\* the text the caller hands to import_data
TextOf(label, d) ==
  CASE label = "malformed" -> Malformed
    [] label = "array" -> JsonArray
    [] label = "number" -> JsonNumber
    [] label = "no_periods" -> NoPeriodsText
    [] label = "legacy" -> LegacyText
    [] label = "exported" -> export_data(d)
    [] label = "orphan" -> OrphanText

\* -------------------------------------------------------------------- state
VARIABLES
  data,      \* self.data, the in-memory document
  file,      \* the content of the store file DATA_FILE
  nextId,    \* the next identifier uuid.uuid4() returns
  failures,  \* file writes that failed since the last one that succeeded
  last,      \* the last method call: its name, what it returned, what its write did
  procs      \* the processes that share the store file, where more than one runs

vars == <<data, file, nextId, failures, last, procs>>

\* datetime.now(): the clock has advanced once for every identifier drawn
clock == nextId - 1

\* save_data under one outcome of open(), json.dump() and the close at the end
\* of the with block: the file afterwards and the value returned.
\* open(..., 'w') truncates, so a write that fails after the open leaves an
\* empty or partly written file; a close that fails after the last byte went
\* out leaves the whole document and still reports failure.
SaveOutcomes == {"ok", "open_failed", "write_failed", "close_failed"}
FailedWrites == SaveOutcomes \ {"ok"}

\* save_data returning True although the file could not be opened
save_data_ReportsSuccess(d, f, outcome) ==
  CASE outcome = "ok" -> [file |-> json_dumps(d), ret |-> "True"]
    [] outcome = "open_failed" -> [file |-> f, ret |-> "True"]
    [] outcome = "write_failed" -> [file |-> Malformed, ret |-> "False"]
    [] outcome = "close_failed" -> [file |-> json_dumps(d), ret |-> "False"]

save_data(d, f, outcome) ==
  CASE outcome = "ok" -> [file |-> json_dumps(d), ret |-> "True"]
    [] outcome = "open_failed" -> [file |-> f, ret |-> "False"]
    [] outcome = "write_failed" -> [file |-> Malformed, ret |-> "False"]
    [] outcome = "close_failed" -> [file |-> json_dumps(d), ret |-> "False"]

\* every goal id of the document, whichever period it is in
DocGoalIds(d) ==
  IF HasKey(d, "periods")
  THEN UNION {IdsOf(d.periods[n].goals) \cup DOMAIN d.periods[n].achievements :
              n \in DOMAIN d.periods}
  ELSE {}

\* every item id of the document
DocItemIds(d) ==
  IF HasKey(d, "periods")
  THEN UNION {UNION {IdsOf(d.periods[n].achievements[g].items) :
                       g \in DOMAIN d.periods[n].achievements} :
                n \in DOMAIN d.periods}
  ELSE {}

\* an identifier no goal or item ever has
NoSuchId == 0
AllIds == NewIds \cup LegacyIds \cup {NoSuchId}
\* The identifiers callers pass: every one drawn so far (in the document or
\* deleted from it), every one the document holds, and one that never existed.
IdArgs == (1..(nextId - 1)) \cup DocGoalIds(data) \cup DocItemIds(data) \cup {NoSuchId}

\* one process only: data is its document and last its last call
NoProcs == <<>>

\* no call has returned that the caller has not yet taken note of
Idle == [op |-> "idle", arg |-> <<>>, ret |-> "None", exc |-> "none",
         write |-> "none", val |-> <<0, 1>>]

Init ==
  /\ data = get_default_data
  /\ file = NoFile
  /\ nextId = 1
  /\ failures = 0
  /\ last = Idle
  /\ procs = NoProcs

(* One call of method op with arguments arg, whose effect is r (see Raise,  *)
(* Return, Value, ReturnSave); outcomes are the outcomes the environment    *)
(* allows the write. The methods are synchronous: a call starts once the    *)
(* caller has taken the result of the one before.                           *)
Call(op, arg, r, outcomes) ==
  /\ last = Idle
  /\ data # NoInstance
  /\ nextId + r.ids <= MaxIds + 1
  /\ nextId' = nextId + r.ids
  /\ data' = r.d
  /\ procs' = procs
  /\ \E outcome \in outcomes :
       LET s == save_data(r.d, file, outcome)
       IN IF r.save
          THEN /\ outcome # "ok" => failures < MaxWriteFailures
               /\ file' = s.file
               /\ failures' = IF outcome = "ok" THEN 0 ELSE failures + 1
               /\ last' = [op |-> op, arg |-> arg, ret |-> s.ret, exc |-> "none",
                           write |-> outcome, val |-> r.val]
          ELSE /\ outcome = "ok"
               /\ file' = file
               /\ failures' = failures
               /\ last' = [op |-> op, arg |-> arg, ret |-> r.ret, exc |-> r.exc,
                           write |-> "none", val |-> r.val]

\* the caller branches on the returned value and goes on
TakeResult ==
  /\ last # Idle
  /\ last' = Idle
  /\ UNCHANGED <<data, file, nextId, failures, procs>>

CreatePeriod(O) ==
  \E n \in NameArgs : Call("create_period", <<n>>, create_period(data, n, clock), O)

SetCurrentPeriod(O) ==
  \E n \in NameArgs :
    Call("set_current_period", <<n>>, set_current_period(data, n), O)

AddGoal(W, O) ==
  \E t \in Titles, w \in W, dl \in Deadlines, ds \in Descriptions :
    Call("add_goal", <<t, w, dl, ds>>, add_goal(data, t, w, dl, ds, nextId, clock), O)

DeleteGoal(O) ==
  \E g \in IdArgs : Call("delete_goal", <<g>>, delete_goal(data, g), O)

AddAchievementItem(P, O) ==
  \E g \in IdArgs, c \in Contents, p \in P :
    Call("add_achievement_item", <<g, c, p>>,
         add_achievement_item(data, g, c, p, nextId, clock), O)

UpdateAchievementItem(P, O) ==
  \E g \in IdArgs, i \in IdArgs, c \in UpdatedContents, p \in P :
    Call("update_achievement_item", <<g, i, c, p>>,
         update_achievement_item(data, g, i, c, p, clock), O)

DeleteAchievementItem(O) ==
  \E g \in IdArgs, i \in IdArgs :
    Call("delete_achievement_item", <<g, i>>, delete_achievement_item(data, g, i), O)

CalculateAchievementRate ==
  Call("calculate_achievement_rate", <<>>, calculate_achievement_rate(data), {"ok"})

GetStatistics ==
  Call("get_statistics", <<>>, get_statistics(data), {"ok"})

\* the period_name argument of the exports: a name, or None when left out
ExportArgs == NameArgs \cup {NoneVal}

ExportCsvSummary ==
  \E n \in ExportArgs :
    Call("export_csv_summary", <<n>>, export_csv_summary(data, n), {"ok"})

ExportCsvDetailed ==
  \E n \in ExportArgs :
    Call("export_csv_detailed", <<n>>, export_csv_detailed(data, n), {"ok"})

SetClaudeApiKey(O) ==
  \E k \in ApiKeys :
    Call("set_claude_api_key", <<k>>, set_claude_api_key(data, k), O)

ImportData(L, O) ==
  \E l \in L :
    Call("import_data", <<l>>, import_data(data, TextOf(l, data), nextId, clock), O)

\* The repository with a writable store: periods, goals, items and the rate.
Next ==
  \/ CreatePeriod({"ok"})
  \/ SetCurrentPeriod({"ok"})
  \/ AddGoal(Weights, {"ok"})
  \/ DeleteGoal({"ok"})
  \/ AddAchievementItem(Percentages, {"ok"})
  \/ UpdateAchievementItem({70}, {"ok"})
  \/ DeleteAchievementItem({"ok"})
  \/ CalculateAchievementRate
  \/ GetStatistics
  \/ TakeResult

Spec == Init /\ [][Next]_vars

\* Every mutating method over a store whose writes may fail.
NextStore ==
  \/ CreatePeriod(SaveOutcomes)
  \/ SetCurrentPeriod(SaveOutcomes)
  \/ AddGoal({2}, SaveOutcomes)
  \/ DeleteGoal(SaveOutcomes)
  \/ AddAchievementItem({40}, SaveOutcomes)
  \/ UpdateAchievementItem({70}, SaveOutcomes)
  \/ DeleteAchievementItem(SaveOutcomes)
  \/ SetClaudeApiKey(SaveOutcomes)
  \/ ImportData({"malformed", "no_periods", "exported"}, SaveOutcomes)
  \/ TakeResult

SpecStore == Init /\ [][NextStore]_vars

\* Backup import of any text, legacy documents included, into a live repository.
NextImport ==
  \/ CreatePeriod({"ok"})
  \/ SetCurrentPeriod({"ok"})
  \/ AddGoal({2}, {"ok"})
  \/ DeleteGoal({"ok"})
  \/ AddAchievementItem({40}, {"ok"})
  \/ DeleteAchievementItem({"ok"})
  \/ CalculateAchievementRate
  \/ SetClaudeApiKey({"ok"})
  \/ ImportData(ImportLabels, {"ok"})
  \/ TakeResult

SpecImport == Init /\ [][NextImport]_vars

\* Edits of a document adopted from a backup that holds an orphaned entry.
NextAdopt ==
  \/ ImportData({"orphan"}, {"ok"})
  \/ CreatePeriod({"ok"})
  \/ AddGoal({2}, {"ok"})
  \/ AddAchievementItem({40}, {"ok"})
  \/ UpdateAchievementItem({70}, {"ok"})
  \/ DeleteAchievementItem({"ok"})
  \/ TakeResult

SpecAdopt == Init /\ [][NextAdopt]_vars

\* Weights and percentages within the bounds of VALIDATION, which the input
\* forms enforce before they call the repository.
RangeWeights == {1, 10}
RangePercentages == {0, 60, 100}

NextRange ==
  \/ CreatePeriod({"ok"})
  \/ AddGoal(RangeWeights, {"ok"})
  \/ AddAchievementItem(RangePercentages, {"ok"})
  \/ UpdateAchievementItem({100}, {"ok"})
  \/ DeleteAchievementItem({"ok"})
  \/ CalculateAchievementRate
  \/ TakeResult

SpecRange == Init /\ [][NextRange]_vars

\* The CSV exports of documents built by hand or migrated from version 1.
NextCsv ==
  \/ CreatePeriod({"ok"})
  \/ SetCurrentPeriod({"ok"})
  \/ AddGoal({2}, {"ok"})
  \/ AddAchievementItem(Percentages, {"ok"})
  \/ ImportData({"legacy"}, {"ok"})
  \/ ExportCsvSummary
  \/ ExportCsvDetailed
  \/ TakeResult

SpecCsv == Init /\ [][NextCsv]_vars

\* the store file as the first process finds it, no repository constructed yet
InitLoad ==
  /\ data = NoInstance
  /\ file \in StoreFiles
  /\ nextId = 1
  /\ failures = 0
  /\ last = Idle
  /\ procs = NoProcs

\* A process start: DataManager() runs load_data on the store file.
Load(O) ==
  LET r == load_data(file, nextId, clock)
  IN /\ last = Idle
     /\ nextId + r.ids <= MaxIds + 1
     /\ nextId' = nextId + r.ids
     /\ data' = r.d
     /\ procs' = procs
     /\ \E outcome \in O :
          IF r.save
          THEN /\ outcome # "ok" => failures < MaxWriteFailures
               /\ file' = save_data(r.d, file, outcome).file
               /\ failures' = IF outcome = "ok" THEN 0 ELSE failures + 1
               /\ last' = [op |-> "load_data", arg |-> <<>>, ret |-> "Data",
                           exc |-> r.exc, write |-> outcome, val |-> <<0, 1>>,
                           migrated |-> r.migrated]
          ELSE /\ outcome = "ok"
               /\ file' = file
               /\ failures' = failures
               /\ last' = [op |-> "load_data", arg |-> <<>>,
                           ret |-> IF r.exc = "none" THEN "Data" ELSE "Raised",
                           exc |-> r.exc, write |-> "none", val |-> <<0, 1>>,
                           migrated |-> r.migrated]

\* Process starts over one store, with edits in between and writes that may fail.
NextLoad ==
  \/ Load(SaveOutcomes)
  \/ CreatePeriod(SaveOutcomes)
  \/ AddGoal({2}, SaveOutcomes)
  \/ AddAchievementItem({40}, SaveOutcomes)
  \/ DeleteGoal(SaveOutcomes)
  \/ TakeResult

SpecLoad == InitLoad /\ [][NextLoad]_vars

\* ------------------------------------------------- two processes, one store
(* Two DataManager processes on one store file. save_data opens the file    *)
(* with mode 'w', which empties it, and the document goes out when the with *)
(* block closes the file; each process writes through its own descriptor    *)
(* from position 0, with no lock and no temporary file. A document of this  *)
(* size goes out in one write.                                              *)
Procs == {1, 2}
MaxMutations == 2

\* the number of lines of json.dump(d, indent=2), the measure of its length:
\* the titles, contents and names here have one length each
PeriodLines(p) ==
  7 + 8 * Len(p.goals)
    + SumSeq([k \in 1..Len(SeqOfSet(DOMAIN p.achievements)) |->
                5 + 6 * Len(p.achievements[SeqOfSet(DOMAIN p.achievements)[k]].items)])
DocLines(d) ==
  8 + SumSeq([k \in 1..Len(SeqOfSet(DOMAIN d.periods)) |->
                PeriodLines(d.periods[SeqOfSet(DOMAIN d.periods)[k]])])

\* the file as open(..., 'w') leaves it, and a file holding the start of one
\* text followed by the end of a longer one
Truncated == [kind |-> "malformed", lines |-> 0]
Torn(n) == [kind |-> "malformed", lines |-> n]
TextLines(t) ==
  IF t.kind = "object" THEN DocLines(json_loads(t))
  ELSE IF HasKey(t, "lines") THEN t.lines ELSE 0

\* the file after text went out from position 0 over the content cur: what
\* cur holds beyond the end of text stays
WriteFromStart(text, cur) ==
  IF TextLines(cur) > TextLines(text) THEN Torn(TextLines(cur)) ELSE text

\* the document both processes loaded
SharedDoc ==
  [periods |-> ("2024-Q1" :> [goals |-> <<LegacyGoal(101)>>,
                              achievements |-> (101 :> EmptyAchievement),
                              created_at |-> 0]),
   current_period |-> "2024-Q1",
   settings |-> [claude_api_key |-> ""],
   version |-> "2.0"]

InitTwo ==
  /\ data = NoInstance
  /\ file = json_dumps(SharedDoc)
  /\ nextId = 1
  /\ failures = 0
  /\ last = Idle
  /\ procs = [p \in Procs |-> [d |-> SharedDoc, pc |-> "ready", ret |-> "None",
                               calls |-> 0, wrote |-> 0]]

IdArgsOf(d) == (1..(nextId - 1)) \cup DocGoalIds(d) \cup DocItemIds(d) \cup {NoSuchId}

\* the order number of the write that ended last
LastWrite == CHOOSE n \in {procs[p].wrote : p \in Procs} :
               \A p \in Procs : procs[p].wrote <= n

\* Process p runs a mutating method up to the open() of save_data: the
\* document of p holds the change and the file is empty.
Begin(p, r) ==
  /\ procs[p].pc = "ready"
  /\ procs[p].calls < MaxMutations
  /\ r.exc = "none" /\ r.save
  /\ nextId + r.ids <= MaxIds + 1
  /\ nextId' = nextId + r.ids
  /\ file' = Truncated
  /\ procs' = [procs EXCEPT ![p] = [@ EXCEPT !.d = r.d, !.pc = "opened",
                                             !.calls = @ + 1]]
  /\ UNCHANGED <<data, failures, last>>

\* Process p leaves the with block of save_data: its text goes out and the
\* method returns True.
Finish(p) ==
  /\ procs[p].pc = "opened"
  /\ file' = WriteFromStart(json_dumps(procs[p].d), file)
  /\ procs' = [procs EXCEPT ![p] = [@ EXCEPT !.pc = "ready", !.ret = "True",
                                             !.wrote = LastWrite + 1]]
  /\ UNCHANGED <<data, nextId, failures, last>>

BeginAddGoal(p) ==
  \E t \in Titles, dl \in Deadlines, ds \in Descriptions :
    Begin(p, add_goal(procs[p].d, t, 2, dl, ds, nextId, clock))
BeginDeleteGoal(p) ==
  \E g \in IdArgsOf(procs[p].d) : Begin(p, delete_goal(procs[p].d, g))
BeginAddAchievementItem(p) ==
  \E g \in IdArgsOf(procs[p].d), c \in Contents :
    Begin(p, add_achievement_item(procs[p].d, g, c, 40, nextId, clock))
BeginCreatePeriod(p) ==
  \E n \in NameArgs : Begin(p, create_period(procs[p].d, n, clock))

NextTwo ==
  \E p \in Procs :
    \/ BeginAddGoal(p)
    \/ BeginDeleteGoal(p)
    \/ BeginAddAchievementItem(p)
    \/ BeginCreatePeriod(p)
    \/ Finish(p)

SpecTwo == InitTwo /\ [][NextTwo]_vars

\* ===================================================================== claims
\* what the claims read of the document
PeriodsOf(d) == IF HasKey(d, "periods") THEN d.periods ELSE EmptyMap
Selected(d) ==
  /\ HasKey(d, "current_period")
  /\ HasKey(d, "periods")
  /\ d.current_period \in DOMAIN d.periods
CurrentGoals(d) == IF Selected(d) THEN d.periods[d.current_period].goals ELSE <<>>
CurrentAchievements(d) ==
  IF Selected(d) THEN d.periods[d.current_period].achievements ELSE EmptyMap
ItemIds(ach, g) == IF g \in DOMAIN ach THEN IdsOf(ach[g].items) ELSE {}

\* the sum of the percentages of the items at the positions in S
RECURSIVE PercentageSum(_, _)
PercentageSum(items, S) ==
  IF S = {} THEN 0
  ELSE LET i == CHOOSE x \in S : TRUE
       IN items[i].percentage + PercentageSum(items, S \ {i})

Capped(x) == IF x > 100 THEN 100 ELSE x

\* C1: in every state reached by period, goal and item calls from the empty
\* document, every Achievement of every goal in every period has
\* total_percentage = min(100, sum of the percentages of its items).
C1_TotalIsCappedSum ==
  \A n \in DOMAIN PeriodsOf(data) :
    \A g \in DOMAIN data.periods[n].achievements :
      LET a == data.periods[n].achievements[g]
      IN a.total_percentage = Capped(PercentageSum(a.items, DOMAIN a.items))

\* C1 witness: the goal that held the items 40 and 70 (total 100) has had the
\* 70 item deleted and now holds 40 alone, with total 40.
C1_Witness ==
  /\ last.op = "delete_achievement_item"
  /\ last.ret = "True"
  /\ nextId = 4
  /\ \E g \in DOMAIN CurrentAchievements(data) :
       LET a == CurrentAchievements(data)[g]
       IN /\ Len(a.items) = 1
          /\ a.items[1].percentage = 40
          /\ a.total_percentage = 40
          /\ last.arg[1] = g
          /\ last.arg[2] \notin IdsOf(a.items)

\* the weighted sums over the goals of the current period at the positions in S
RECURSIVE WeightedSum(_, _, _)
WeightedSum(goals, ach, S) ==
  IF S = {} THEN 0
  ELSE LET i == CHOOSE x \in S : TRUE
       IN goals[i].weight * ach[goals[i].id].total_percentage
          + WeightedSum(goals, ach, S \ {i})
RECURSIVE WeightSum(_, _)
WeightSum(goals, S) ==
  IF S = {} THEN 0
  ELSE LET i == CHOOSE x \in S : TRUE
       IN goals[i].weight + WeightSum(goals, S \ {i})

\* the fraction v = <<numerator, denominator>> equals a / b
FractionIs(v, a, b) == v[1] * b = a * v[2]

RateReturned == last.op = "calculate_achievement_rate" /\ last.ret = "Value"

\* C2 as stated: calculate_achievement_rate returns sum(w*p)/sum(w) over the
\* goals of the current period, and 0.0 when there is no current period, no
\* goal, or the total weight is 0; for one goal of positive weight it is that
\* goal's total_percentage.
C2_RateAsStated ==
  RateReturned =>
    LET goals == CurrentGoals(data)
        ach == CurrentAchievements(data)
        w == WeightSum(goals, DOMAIN goals)
    IN /\ (goals = <<>> \/ w = 0) => FractionIs(last.val, 0, 1)
       /\ (goals # <<>> /\ w # 0) =>
            /\ last.val[2] # 0
            /\ FractionIs(last.val, WeightedSum(goals, ach, DOMAIN goals), w)
       /\ (Len(goals) = 1 /\ w > 0) =>
            FractionIs(last.val, ach[goals[1].id].total_percentage, 1)

\* C2 amended: the same, with 0.0 returned whenever the total weight is not
\* positive (zero or negative).
C2_RateAmended ==
  RateReturned =>
    LET goals == CurrentGoals(data)
        ach == CurrentAchievements(data)
        w == WeightSum(goals, DOMAIN goals)
    IN /\ (goals = <<>> \/ w <= 0) => last.val = <<0, 1>>
       /\ (goals # <<>> /\ w > 0) =>
            /\ last.val[2] > 0
            /\ FractionIs(last.val, WeightedSum(goals, ach, DOMAIN goals), w)
       /\ (Len(goals) = 1 /\ w > 0) =>
            FractionIs(last.val, ach[goals[1].id].total_percentage, 1)

\* C2 witness: the rate of two goals of different weight and different
\* percentage has been computed, and it is not zero.
C2_Witness ==
  /\ RateReturned
  /\ Len(CurrentGoals(data)) = 2
  /\ CurrentGoals(data)[1].weight # CurrentGoals(data)[2].weight
  /\ CurrentAchievements(data)[CurrentGoals(data)[1].id].total_percentage
       # CurrentAchievements(data)[CurrentGoals(data)[2].id].total_percentage
  /\ last.val[1] # 0

\* C3: once delete_goal(id) has succeeded, the current period has no goal and
\* no Achievement entry with that id; and whenever no goal of the document has
\* the id passed, add_achievement_item fails, adds no item and writes nothing.
C3_DeletedGoalTakesNoItems ==
  [][/\ (last'.op = "delete_goal" /\ last'.ret = "True") =>
          /\ Selected(data')
          /\ last'.arg[1] \notin IdsOf(CurrentGoals(data'))
          /\ last'.arg[1] \notin DOMAIN CurrentAchievements(data')
     /\ (last'.op = "add_achievement_item"
          /\ \A n \in DOMAIN PeriodsOf(data) :
               last'.arg[1] \notin IdsOf(data.periods[n].goals)) =>
          /\ last'.ret = "False"
          /\ data' = data
          /\ file' = file]_vars

\* C3 witness: goal 1, the first identifier drawn, has been deleted, and an
\* add_achievement_item for it has just failed with a period selected.
C3_Witness ==
  /\ last.op = "add_achievement_item"
  /\ last.arg[1] = 1
  /\ last.ret = "False"
  /\ nextId > 1
  /\ Selected(data)
  /\ 1 \notin DocGoalIds(data)

\* C9 as stated: with a current period selected and the store writable,
\* delete_goal of an id not in the goal list, and delete_achievement_item of a
\* goal without Achievement entry or of an item not among the goal's items,
\* return success and leave goals and achievements unchanged.
C9_MissingIdDeleteIsNoOp ==
  [][/\ (last'.op = "delete_goal" /\ Selected(data)
          /\ last'.arg[1] \notin IdsOf(CurrentGoals(data))) =>
          /\ last'.ret = "True"
          /\ CurrentGoals(data') = CurrentGoals(data)
          /\ CurrentAchievements(data') = CurrentAchievements(data)
     /\ (last'.op = "delete_achievement_item" /\ Selected(data)
          /\ last'.arg[2] \notin ItemIds(CurrentAchievements(data), last'.arg[1])) =>
          /\ last'.ret = "True"
          /\ CurrentGoals(data') = CurrentGoals(data)
          /\ CurrentAchievements(data') = CurrentAchievements(data)]_vars

\* C10: in every reachable document, for every goal and item id, a
\* delete_achievement_item that got as far as the write, called again with
\* the same ids, gets as far as the write again (it neither raises nor
\* reports a missing id) and leaves the document, so the goal's item list and
\* total_percentage, exactly as the first call left it.
C10_DeleteItemIdempotent ==
  \A g \in AllIds, i \in AllIds :
    LET first == delete_achievement_item(data, g, i)
        second == delete_achievement_item(first.d, g, i)
    IN first.save =>
         /\ second.save
         /\ second.exc = "none"
         /\ second.d = first.d
         /\ i \notin ItemIds(CurrentAchievements(second.d), g)

\* C10 witness: a delete_achievement_item has removed an item of a goal that
\* still holds another one; a second call finds the item absent.
C10_Witness ==
  /\ last.op = "delete_achievement_item"
  /\ last.ret = "True"
  /\ last.arg[2] \in 1..(nextId - 1)
  /\ last.arg[2] \notin DocGoalIds(data)
  /\ last.arg[1] \in DOMAIN CurrentAchievements(data)
  /\ last.arg[2] \notin ItemIds(CurrentAchievements(data), last.arg[1])
  /\ CurrentAchievements(data)[last.arg[1]].items # <<>>
  /\ CurrentAchievements(data)[last.arg[1]].total_percentage > 0

\* the mutating methods, each ending in `return self.save_data()`
MutatingOps ==
  {"create_period", "set_current_period", "add_goal", "delete_goal",
   "add_achievement_item", "update_achievement_item", "delete_achievement_item",
   "set_claude_api_key", "import_data"}

ItemsOf(d, g) ==
  IF g \in DOMAIN CurrentAchievements(d) THEN CurrentAchievements(d)[g].items ELSE <<>>

\* the document d1 holds what the call l, made on the document d0, changes
MutationKept(l, d0, d1) ==
  CASE l.op = "create_period" ->
         /\ l.arg[1] \notin DOMAIN PeriodsOf(d0)
         /\ l.arg[1] \in DOMAIN PeriodsOf(d1)
         /\ d1.current_period = l.arg[1]
    [] l.op = "set_current_period" -> d1.current_period = l.arg[1]
    [] l.op = "add_goal" ->
         /\ Len(CurrentGoals(d1)) = Len(CurrentGoals(d0)) + 1
         /\ CurrentGoals(d1)[Len(CurrentGoals(d1))].title = l.arg[1]
         /\ CurrentGoals(d1)[Len(CurrentGoals(d1))].id \in DOMAIN CurrentAchievements(d1)
    [] l.op = "delete_goal" ->
         /\ l.arg[1] \notin IdsOf(CurrentGoals(d1))
         /\ l.arg[1] \notin DOMAIN CurrentAchievements(d1)
    [] l.op = "add_achievement_item" ->
         /\ Len(ItemsOf(d1, l.arg[1])) = Len(ItemsOf(d0, l.arg[1])) + 1
         /\ ItemsOf(d1, l.arg[1])[Len(ItemsOf(d1, l.arg[1]))].percentage = l.arg[3]
    [] l.op = "update_achievement_item" ->
         \E i \in DOMAIN ItemsOf(d1, l.arg[1]) :
           /\ ItemsOf(d1, l.arg[1])[i].id = l.arg[2]
           /\ ItemsOf(d1, l.arg[1])[i].content = l.arg[3]
           /\ ItemsOf(d1, l.arg[1])[i].percentage = l.arg[4]
    [] l.op = "delete_achievement_item" ->
         /\ l.arg[1] \in DOMAIN CurrentAchievements(d1)
         /\ l.arg[2] \notin ItemIds(CurrentAchievements(d1), l.arg[1])
    [] l.op = "set_claude_api_key" -> d1.settings.claude_api_key = l.arg[1]
    [] l.op = "import_data" ->
         d1 = IF l.arg[1] = "exported" THEN d0 ELSE [version |-> "2.0"]
    [] OTHER -> FALSE

\* C4 as stated: when the write of a mutating call fails, the call returns
\* failure, the document in memory keeps the mutation and the store file keeps
\* its previous content.
C4_WriteFailureAsStated ==
  [][last'.write \in FailedWrites =>
       /\ last'.op \in MutatingOps
       /\ last'.ret = "False"
       /\ MutationKept(last', data, data')
       /\ file' = file]_vars

\* C4 amended: when the write of a mutating call fails, the call returns
\* failure and the document in memory keeps the mutation; the store file
\* keeps its previous content only if it could not be opened. Once opened it
\* is truncated: it holds an incomplete document if the write failed, and the
\* new document if only the close failed.
C4_WriteFailureAmended ==
  [][last'.write \in FailedWrites =>
       /\ last'.op \in MutatingOps
       /\ last'.ret = "False"
       /\ MutationKept(last', data, data')
       /\ last'.write = "open_failed" => file' = file
       /\ last'.write = "write_failed" => file' = Malformed /\ file' # json_dumps(data')
       /\ last'.write = "close_failed" => file' = json_dumps(data')]_vars

\* C4 witness: the write of an add_achievement_item failed after the store file
\* was opened; the item is in memory and the file no longer holds a document.
C4_Witness ==
  /\ last.op = "add_achievement_item"
  /\ last.write = "write_failed"
  /\ last.ret = "False"
  /\ file = Malformed
  /\ ItemsOf(data, last.arg[1]) # <<>>

\* C5: right after a mutating call that returned success, the store file holds
\* the whole document in memory: it is the text json.dump writes for it, and
\* reading it back gives the document.
C5_SuccessMeansStored ==
  (last.op \in MutatingOps /\ last.ret = "True") =>
    /\ last.write = "ok"
    /\ file = json_dumps(data)
    /\ file.kind = "object"
    /\ json_loads(file) = data

\* C5 witness: an add_achievement_item succeeded right after a failed write
\* had left the store file without a document.
C5_Witness ==
  /\ last.op = "add_achievement_item"
  /\ last.ret = "True"
  /\ file = json_dumps(data)
  /\ ItemsOf(data, last.arg[1]) # <<>>
  /\ Len(CurrentGoals(data)) = 1
  /\ data.settings.claude_api_key = "sk-1"

\* C6: import_data of text that is not well-formed JSON returns False, leaves
\* the document in memory as it was and does not write the store file.
C6_MalformedImportRejected ==
  [][(last'.op = "import_data" /\ last'.arg = <<"malformed">>) =>
       /\ last'.ret = "False"
       /\ last'.exc = "none"
       /\ last'.write = "none"
       /\ data' = data
       /\ file' = file
       /\ nextId' = nextId]_vars

\* C6 witness: malformed text was rejected while the document held a goal
\* with an item, and the store file still holds that document.
C6_Witness ==
  /\ last.op = "import_data"
  /\ last.arg = <<"malformed">>
  /\ last.ret = "False"
  /\ \E g \in DOMAIN CurrentAchievements(data) : ItemsOf(data, g) # <<>>
  /\ file = json_dumps(data)

\* C7: with the store writable, import_data(export_data()) returns True and
\* leaves the document in memory equal to the one before the call, in every
\* reachable state; no identifier is drawn.
C7_ExportImportRoundTrip ==
  [][(last'.op = "import_data" /\ last'.arg = <<"exported">>) =>
       /\ last'.ret = "True"
       /\ data' = data
       /\ nextId' = nextId
       /\ file' = export_data(data)]_vars

\* C7 witness: the round trip was made on a document migrated from version 1
\* (goal 101 holds the item made of its old text) with a period selected.
C7_Witness ==
  /\ last.op = "import_data"
  /\ last.arg = <<"exported">>
  /\ last.ret = "True"
  /\ data.version = "2.0"
  /\ Selected(data)
  /\ \E i \in DOMAIN ItemsOf(data, 101) : ItemsOf(data, 101)[i].content = "Shipped v1"

\* C8 as stated: no repository method raises, whatever its arguments and the
\* reachable state: every call returns a success/failure signal or a value.
C8_NeverRaises == last.exc = "none" /\ last.ret # "Raised"

\* the legacy document handed to import_data under the label "legacy"
LegacyDoc == json_loads(LegacyText)
LegacyRecords(n) == OldAchievements(LegacyDoc.periods[n])
MigratedLegacy == last'.op = "import_data" /\ last'.arg = <<"legacy">> /\ last'.ret = "True"

\* C11 as stated: after a migration every goal of every period whose legacy
\* text is non-empty has an Achievement of exactly one item holding that text,
\* with percentage 100 and total_percentage 100; every goal whose legacy text
\* is empty, or which has no legacy record at all, has an Achievement with no
\* item and total_percentage 0.
C11_MigrationAsStated ==
  [][MigratedLegacy =>
       \A n \in DOMAIN LegacyDoc.periods :
         \A k \in DOMAIN LegacyDoc.periods[n].goals :
           LET g == LegacyDoc.periods[n].goals[k].id
               ach == data'.periods[n].achievements
           IN /\ g \in DOMAIN ach
              /\ IF g \in DOMAIN LegacyRecords(n) /\ LegacyRecords(n)[g] # ""
                 THEN /\ Len(ach[g].items) = 1
                      /\ ach[g].items[1].content = LegacyRecords(n)[g]
                      /\ ach[g].items[1].percentage = 100
                      /\ ach[g].total_percentage = 100
                 ELSE ach[g] = EmptyAchievement]_vars

\* C11 amended: a legacy text that is not blank (not empty and not only white
\* space) becomes exactly one item holding it, with percentage 100 and
\* total_percentage 100; a blank legacy text becomes an Achievement with no
\* item and total_percentage 0; a goal without legacy record gets no
\* Achievement entry from the migration. The goals themselves are kept.
C11_MigrationAmended ==
  [][MigratedLegacy =>
       /\ DOMAIN data'.periods = DOMAIN LegacyDoc.periods
       /\ \A n \in DOMAIN LegacyDoc.periods :
            /\ data'.periods[n].goals = LegacyDoc.periods[n].goals
            /\ DOMAIN data'.periods[n].achievements = DOMAIN LegacyRecords(n)
            /\ \A g \in DOMAIN LegacyRecords(n) :
                 LET a == data'.periods[n].achievements[g]
                 IN IF LegacyRecords(n)[g] \notin {"", "  "}
                    THEN /\ Len(a.items) = 1
                         /\ a.items[1].content = LegacyRecords(n)[g]
                         /\ a.items[1].percentage = 100
                         /\ a.items[1].id = nextId
                         /\ a.total_percentage = 100
                    ELSE a = EmptyAchievement]_vars

\* C11 witness: the legacy document has been migrated: goal 101 holds its old
\* text as one item, goal 102 (blank text) holds none, goal 103 has no entry.
C11_Witness ==
  /\ last.op = "import_data"
  /\ last.arg = <<"legacy">>
  /\ last.ret = "True"
  /\ Len(ItemsOf(data, 101)) = 1
  /\ CurrentAchievements(data)[102] = EmptyAchievement
  /\ 103 \in IdsOf(CurrentGoals(data))
  /\ 103 \notin DOMAIN CurrentAchievements(data)

\* the store file holds a document load_data would migrate
Legacy(f) == f.kind = "object" /\ NeedsMigration(json_loads(f))
\* the store file holds a document of the current version
Current(f) == f.kind = "object" /\ ~NeedsMigration(json_loads(f)) /\ json_loads(f).version = "2.0"

Loaded == last'.op = "load_data"

\* C12 as stated: a load migrates only a stored document whose version is
\* absent or the legacy tag; after a load that migrated the store file
\* carries the current version; and a store file that needs no migration
\* never comes to need one, so no later load migrates again.
C12_MigratesOnceAsStated ==
  [][/\ (Loaded /\ last'.migrated) => (Legacy(file) /\ Current(file'))
     /\ ~Legacy(file) => ~Legacy(file')]_vars

\* C12 amended: a load migrates exactly when the stored document's version is
\* absent or the legacy tag, and then writes the migrated document; if that
\* write succeeds,
\* the store file holds that document with the current version and no later
\* load migrates again. load_data drops the result of that write: when the
\* file could not be opened it still holds the legacy document (the next load
\* migrates again), and when the write failed after the open it holds no
\* document.
C12_MigratesOnceAmended ==
  [][/\ Loaded =>
          /\ last'.migrated <=> Legacy(file)
          /\ last'.migrated =>
               /\ last'.exc = "none"
               /\ data'.version = "2.0"
               /\ last'.write \in SaveOutcomes
               /\ last'.write \in {"ok", "close_failed"} =>
                    (file' = json_dumps(data') /\ Current(file'))
               /\ last'.write = "open_failed" => (file' = file /\ Legacy(file'))
               /\ last'.write = "write_failed" => file' = Malformed
          /\ ~last'.migrated => file' = file
     /\ ~Legacy(file) => ~Legacy(file')]_vars

\* C12 witness: a process started on the store a previous start had migrated
\* and written, and it did not migrate again.
C12_Witness ==
  /\ last.op = "load_data"
  /\ ~last.migrated
  /\ Current(file)
  /\ nextId = 2
  /\ \E i \in DOMAIN ItemsOf(data, 101) : ItemsOf(data, 101)[i].content = "Shipped v1"

\* C13 as stated: loading a store whose content is corrupt, or well-formed but
\* no document, gives what loading without a file gives: the default
\* document, and no exception.
C13_UnusableStoreLoadsDefault ==
  [][(Loaded /\ file.kind \in {"malformed", "array", "number"}) =>
       /\ last'.exc = "none"
       /\ data' = get_default_data
       /\ data' = load_data(NoFile, nextId, clock).d]_vars

\* C14: create_period of an empty name or of a name periods already has
\* returns False and leaves document and store as they were (the existing
\* period keeps its goals and achievements); of any other name it returns
\* True, adds a period without goals and achievements, makes it the current
\* one and leaves every other period, the settings and the version unchanged.
C14_CreatePeriodContract ==
  [][last'.op = "create_period" =>
       LET n == last'.arg[1]
       IN IF n = "" \/ n \in DOMAIN PeriodsOf(data)
          THEN /\ last'.ret = "False"
               /\ data' = data
               /\ file' = file
          ELSE /\ last'.ret = "True"
               /\ DOMAIN data'.periods = DOMAIN data.periods \cup {n}
               /\ data'.periods[n].goals = <<>>
               /\ data'.periods[n].achievements = EmptyMap
               /\ data'.current_period = n
               /\ \A m \in DOMAIN data.periods : data'.periods[m] = data.periods[m]
               /\ data'.settings = data.settings
               /\ data'.version = data.version]_vars

\* C14 witness: create_period was refused for the name of a period that
\* holds a goal with an item, and the period still holds them.
C14_Witness ==
  /\ last.op = "create_period"
  /\ last.ret = "False"
  /\ last.arg[1] \in DOMAIN PeriodsOf(data)
  /\ data.periods[last.arg[1]].goals # <<>>
  /\ \E g \in DOMAIN data.periods[last.arg[1]].achievements :
       data.periods[last.arg[1]].achievements[g].items # <<>>

\* C15: set_current_period of a name periods does not have returns False and
\* leaves the document (current_period included) and the store as they were;
\* of a name it has, it returns True and changes current_period to the name
\* and nothing else.
C15_SetCurrentPeriodContract ==
  [][last'.op = "set_current_period" =>
       LET n == last'.arg[1]
       IN IF n \notin DOMAIN PeriodsOf(data)
          THEN /\ last'.ret = "False"
               /\ data' = data
               /\ file' = file
          ELSE /\ last'.ret = "True"
               /\ data'.current_period = n
               /\ data' = [data EXCEPT !.current_period = n]]_vars

\* C15 witness: with two periods, the current period has been switched to the
\* one that holds a goal.
C15_Witness ==
  /\ last.op = "set_current_period"
  /\ last.ret = "True"
  /\ Cardinality(DOMAIN PeriodsOf(data)) = 2
  /\ data.current_period = last.arg[1]
  /\ CurrentGoals(data) # <<>>
  /\ \E m \in DOMAIN data.periods : data.periods[m].goals = <<>>

\* C16 as stated: in every reachable state current_period is null or a key of
\* periods, and no method other than import_data removes a period.
C16_CurrentPeriodValid ==
  [][/\ HasKey(data', "current_period")
     /\ HasKey(data', "periods")
     /\ data'.current_period = NoneVal \/ data'.current_period \in DOMAIN data'.periods
     /\ last'.op # "import_data" => DOMAIN PeriodsOf(data) \subseteq DOMAIN PeriodsOf(data')]_vars

\* every identifier the document holds: goals, achievement keys and items
DocIds(d) == DocGoalIds(d) \cup DocItemIds(d)

\* the periods other than the current one are the same in d0 and d1
OtherPeriodsSame(d0, d1) ==
  /\ DOMAIN d1.periods = DOMAIN d0.periods
  /\ d1.current_period = d0.current_period
  /\ \A m \in DOMAIN d0.periods \ {d0.current_period} : d1.periods[m] = d0.periods[m]
  /\ d1.settings = d0.settings

\* the achievements other than goal g's are the same in d0 and d1
OtherAchievementsSame(d0, d1, g) ==
  /\ DOMAIN CurrentAchievements(d1) \ {g} = DOMAIN CurrentAchievements(d0) \ {g}
  /\ \A h \in DOMAIN CurrentAchievements(d0) \ {g} :
       CurrentAchievements(d1)[h] = CurrentAchievements(d0)[h]

\* C17: add_goal without a current period returns False and changes nothing;
\* with one it returns True, appends one goal holding the arguments and an
\* identifier the document has never held, after the existing goals in their
\* order, and gives that identifier an Achievement with no item and
\* total_percentage 0, all else unchanged.
C17_AddGoalContract ==
  [][last'.op = "add_goal" =>
       IF ~Selected(data)
       THEN /\ last'.ret = "False"
            /\ data' = data
            /\ file' = file
       ELSE LET before == CurrentGoals(data)
                after == CurrentGoals(data')
                new == after[Len(after)]
            IN /\ last'.ret = "True"
               /\ Len(after) = Len(before) + 1
               /\ SubSeq(after, 1, Len(before)) = before
               /\ new.id \notin DocIds(data)
               /\ new.id \notin 1..(nextId - 1)
               /\ new.title = last'.arg[1]
               /\ new.weight = last'.arg[2]
               /\ new.deadline = last'.arg[3]
               /\ new.description = last'.arg[4]
               /\ new.id \in DOMAIN CurrentAchievements(data')
               /\ CurrentAchievements(data')[new.id] = EmptyAchievement
               /\ OtherAchievementsSame(data, data', new.id)
               /\ OtherPeriodsSame(data, data')]_vars

\* C17 witness: a second goal was appended behind the first, which holds an item.
C17_Witness ==
  /\ last.op = "add_goal"
  /\ last.ret = "True"
  /\ Len(CurrentGoals(data)) = 2
  /\ ItemsOf(data, CurrentGoals(data)[1].id) # <<>>
  /\ ItemsOf(data, CurrentGoals(data)[2].id) = <<>>

\* C18: add_achievement_item for an id that is no goal of the current period
\* returns False and leaves document and store as they were; for a goal of
\* the current period it returns True, appends one item holding the arguments
\* and an identifier the document has never held at the end of the goal's
\* items, sets the goal's total_percentage to the capped sum of its items and
\* leaves the goals and every other Achievement unchanged.
C18_AddItemContract ==
  [][last'.op = "add_achievement_item" =>
       LET g == last'.arg[1]
       IN IF g \notin IdsOf(CurrentGoals(data))
          THEN /\ last'.ret = "False"
               /\ data' = data
               /\ file' = file
          ELSE LET before == ItemsOf(data, g)
                   after == ItemsOf(data', g)
                   new == after[Len(after)]
               IN /\ last'.ret = "True"
                  /\ Len(after) = Len(before) + 1
                  /\ SubSeq(after, 1, Len(before)) = before
                  /\ new.id \notin DocIds(data)
                  /\ new.id \notin 1..(nextId - 1)
                  /\ new.content = last'.arg[2]
                  /\ new.percentage = last'.arg[3]
                  /\ CurrentAchievements(data')[g].total_percentage
                       = Capped(PercentageSum(after, DOMAIN after))
                  /\ CurrentGoals(data') = CurrentGoals(data)
                  /\ OtherAchievementsSame(data, data', g)
                  /\ OtherPeriodsSame(data, data')]_vars

\* C18 witness: a goal got its second item (40 and 70, capped at 100) while
\* a period other than the current one exists.
C18_Witness ==
  /\ last.op = "add_achievement_item"
  /\ last.ret = "True"
  /\ Len(ItemsOf(data, last.arg[1])) = 2
  /\ CurrentAchievements(data)[last.arg[1]].total_percentage = 100
  /\ Cardinality(DOMAIN PeriodsOf(data)) = 2

\* C19: update_achievement_item for an id that is no goal of the current
\* period, or for an item id the goal does not hold, returns False and leaves
\* document and store as they were; otherwise it returns True, gives exactly
\* that item the new content and percentage and an updated_at stamp (id,
\* created_at, position and all other items unchanged) and sets the goal's
\* total_percentage to the capped sum of its items.
C19_UpdateItemContract ==
  [][last'.op = "update_achievement_item" =>
       LET g == last'.arg[1]
           i == last'.arg[2]
       IN IF g \notin IdsOf(CurrentGoals(data)) \/ i \notin ItemIds(CurrentAchievements(data), g)
          THEN /\ last'.ret = "False"
               /\ data' = data
               /\ file' = file
          ELSE LET before == ItemsOf(data, g)
                   after == ItemsOf(data', g)
               IN /\ last'.ret = "True"
                  /\ Len(after) = Len(before)
                  /\ \A k \in DOMAIN before :
                       IF before[k].id = i
                       THEN /\ after[k].id = i
                            /\ after[k].created_at = before[k].created_at
                            /\ after[k].content = last'.arg[3]
                            /\ after[k].percentage = last'.arg[4]
                            /\ HasKey(after[k], "updated_at")
                            /\ after[k].updated_at = clock
                       ELSE after[k] = before[k]
                  /\ CurrentAchievements(data')[g].total_percentage
                       = Capped(PercentageSum(after, DOMAIN after))
                  /\ CurrentGoals(data') = CurrentGoals(data)
                  /\ OtherAchievementsSame(data, data', g)
                  /\ OtherPeriodsSame(data, data')]_vars

\* how many items the goals at the positions in S hold
RECURSIVE ItemCount(_, _, _)
ItemCount(goals, ach, S) ==
  IF S = {} THEN 0
  ELSE LET i == CHOOSE x \in S : TRUE
       IN Len(ach[goals[i].id].items) + ItemCount(goals, ach, S \ {i})

\* C20: get_statistics returns, over the goals of the current period, their
\* number, the number with total_percentage >= 100, the number with
\* 0 < total_percentage < 100, the sum of their weights, the weighted rate
\* calculate_achievement_rate gives and the number of their items; completed
\* plus partial never exceeds the total, and all six are zero without goals
\* or without a current period.
C20_StatisticsContract ==
  (last.op = "get_statistics" /\ last.ret = "Value") =>
    LET goals == CurrentGoals(data)
        ach == CurrentAchievements(data)
        tp(k) == ach[goals[k].id].total_percentage
        w == WeightSum(goals, DOMAIN goals)
        st == last.val
    IN /\ st.total_goals = Len(goals)
       /\ st.completed_goals = Cardinality({k \in DOMAIN goals : tp(k) >= 100})
       /\ st.partial_goals = Cardinality({k \in DOMAIN goals : 0 < tp(k) /\ tp(k) < 100})
       /\ st.total_weight = w
       /\ st.achievement_rate = calculate_achievement_rate(data).val
       /\ IF w > 0
          THEN st.achievement_rate[2] > 0
               /\ FractionIs(st.achievement_rate, WeightedSum(goals, ach, DOMAIN goals), w)
          ELSE st.achievement_rate = <<0, 1>>
       /\ st.total_achievement_items = ItemCount(goals, ach, DOMAIN goals)
       /\ st.completed_goals + st.partial_goals <= st.total_goals
       /\ goals = <<>> =>
            /\ st.total_goals = 0 /\ st.completed_goals = 0 /\ st.partial_goals = 0
            /\ st.total_weight = 0 /\ st.achievement_rate = <<0, 1>>
            /\ st.total_achievement_items = 0

\* C20 witness: statistics of two goals, one with a 40% item and one with no
\* item: no goal completed, one partial, one item.
C20_Witness ==
  /\ last.op = "get_statistics"
  /\ last.ret = "Value"
  /\ last.val.total_goals = 2
  /\ last.val.completed_goals = 0
  /\ last.val.partial_goals = 1
  /\ last.val.total_achievement_items = 1
  /\ last.val.achievement_rate[1] # 0

\* ------------------------------------------------------------- CSV claims
\* the period an export call l reads in the document d
ExportName(l, d) ==
  IF l.arg[1] # NoneVal THEN l.arg[1]
  ELSE IF HasKey(d, "current_period") THEN d.current_period ELSE NoneVal
KnownExport(l, d) ==
  /\ HasKey(d, "periods")
  /\ Truthy(ExportName(l, d))
  /\ ExportName(l, d) \in DOMAIN d.periods
ExportGoals(l, d) == d.periods[ExportName(l, d)].goals
ExportAchievements(l, d) == d.periods[ExportName(l, d)].achievements
Max(a, b) == IF a >= b THEN a ELSE b
RowsNeeded(goals, ach) ==
  SumSeq([k \in 1..Len(goals) |-> Max(1, Len(ItemsOfGoal(ach, goals[k].id)))])
IdSeq(items) == [k \in 1..Len(items) |-> items[k].id]

\* C21: for a known period the detailed export has, after the header, as many
\* rows as the sum over the goals of max(1, number of items), hence at least
\* one per goal; every row carries the id of its goal, a goal has max(1, its
\* items) rows, the rows follow the goal order and, within a goal, the order
\* in which the items were added.
C21_DetailedRowsPerItem ==
  (last.op = "export_csv_detailed" /\ KnownExport(last, data)) =>
    LET goals == ExportGoals(last, data)
        ach == ExportAchievements(last, data)
        rows == Tail(last.val)
        RowsOfGoal(g) == {r \in 1..Len(rows) : rows[r][2] = g}
    IN /\ last.exc = "none"
       /\ Head(last.val) = DetailedHeader
       /\ Len(rows) = RowsNeeded(goals, ach)
       /\ Len(rows) >= Len(goals)
       /\ \A r \in 1..Len(rows) : rows[r][2] \in IdsOf(goals)
       /\ \A k \in 1..Len(goals) :
            Cardinality(RowsOfGoal(goals[k].id))
              = Max(1, Len(ItemsOfGoal(ach, goals[k].id)))
       /\ \A r, s \in 1..Len(rows) :
            r < s =>
              /\ PositionIn(IdSeq(goals), rows[r][2])
                   <= PositionIn(IdSeq(goals), rows[s][2])
              /\ rows[r][2] = rows[s][2] =>
                   LET ids == IdSeq(ItemsOfGoal(ach, rows[r][2]))
                   IN /\ rows[r][7] \in IdsOf(ItemsOfGoal(ach, rows[r][2]))
                      /\ rows[s][7] \in IdsOf(ItemsOfGoal(ach, rows[r][2]))
                      /\ PositionIn(ids, rows[r][7]) < PositionIn(ids, rows[s][7])

\* a detailed export of a period holding a goal with two items before goals
\* without any: more rows than goals
C21_Witness ==
  /\ last.op = "export_csv_detailed"
  /\ KnownExport(last, data)
  /\ Len(ExportGoals(last, data)) >= 2
  /\ \E k \in 1..Len(ExportGoals(last, data)) :
       Len(ItemsOfGoal(ExportAchievements(last, data), ExportGoals(last, data)[k].id)) = 2
  /\ \E k \in 1..Len(ExportGoals(last, data)) :
       ItemsOfGoal(ExportAchievements(last, data), ExportGoals(last, data)[k].id) = <<>>
  /\ Len(last.val) = 1 + Len(ExportGoals(last, data)) + 1

\* the rows of a detailed export that belong to goals without items
EmptyGoalRows(l, d) ==
  {r \in 2..Len(l.val) : ItemsOfGoal(ExportAchievements(l, d), l.val[r][2]) = <<>>}

\* C22 as stated: the row of a goal without items has an empty item id, an
\* empty item content and an empty item date, and "0.0" in both percentage
\* fields.
C22_EmptyGoalRowAsStated ==
  (last.op = "export_csv_detailed" /\ KnownExport(last, data)) =>
    \A r \in EmptyGoalRows(last, data) :
      /\ last.val[r][7] = "" /\ last.val[r][8] = "" /\ last.val[r][10] = ""
      /\ last.val[r][9] = "0.0" /\ last.val[r][11] = "0.0"

\* C22: the row of a goal without items has an empty item id and an empty item
\* date, the placeholder text as item content, and "0.0" in both percentage
\* fields.
C22_EmptyGoalRowAmended ==
  (last.op = "export_csv_detailed" /\ KnownExport(last, data)) =>
    \A r \in EmptyGoalRows(last, data) :
      /\ last.val[r][7] = "" /\ last.val[r][8] = NotEntered /\ last.val[r][10] = ""
      /\ last.val[r][9] = "0.0" /\ last.val[r][11] = "0.0"

\* a detailed export whose period holds a goal without items
C22_Witness ==
  /\ last.op = "export_csv_detailed"
  /\ KnownExport(last, data)
  /\ last.exc = "none"
  /\ EmptyGoalRows(last, data) # {}

\* the item-detail text of the first n items: each numbered by its position,
\* separated by " | "
RECURSIVE NumberedDetails(_, _)
NumberedDetails(items, n) ==
  IF n = 0 THEN ""
  ELSE (IF n = 1 THEN "" ELSE NumberedDetails(items, n - 1) \o " | ")
       \o ToString(n) \o ". " \o items[n].content
       \o " (" \o ToString(items[n].percentage) \o ".0%)"

\* C23: for a known period the summary export has, after the header, one row
\* per goal in goal order; the item-count field is the number of items of the
\* goal and the item-detail field is the placeholder for a goal without items
\* and otherwise its items in the order they were added, numbered from 1.
C23_SummaryRowPerGoal ==
  (last.op = "export_csv_summary" /\ KnownExport(last, data)) =>
    LET goals == ExportGoals(last, data)
        ach == ExportAchievements(last, data)
        rows == Tail(last.val)
    IN /\ last.exc = "none"
       /\ Head(last.val) = SummaryHeader
       /\ Len(rows) = Len(goals)
       /\ \A k \in 1..Len(goals) :
            LET items == ItemsOfGoal(ach, goals[k].id)
            IN /\ rows[k][2] = goals[k].id
               /\ rows[k][8] = ToString(Len(items))
               /\ rows[k][9] = IF items = <<>> THEN NotEntered
                               ELSE NumberedDetails(items, Len(items))

\* a summary export of a period with a goal of two items and a goal of none
C23_Witness ==
  /\ last.op = "export_csv_summary"
  /\ KnownExport(last, data)
  /\ Len(last.val) >= 3
  /\ \E r \in 2..Len(last.val) : last.val[r][8] = "2"
  /\ \E r \in 2..Len(last.val) : last.val[r][8] = "0" /\ last.val[r][9] = NotEntered

ExportOps == {"export_csv_summary", "export_csv_detailed"}
ExportOf(l, d) ==
  IF l.op = "export_csv_summary" THEN export_csv_summary(d, l.arg[1])
  ELSE export_csv_detailed(d, l.arg[1])

\* C24: an export of an unknown period, or without a name when no period is
\* current, returns the empty text; an export never changes the document or
\* the store, and the same call on the document it leaves returns the same
\* text.
C24_ExportIsStateless ==
  [][(last = Idle /\ last'.op \in ExportOps) =>
       /\ data' = data /\ file' = file /\ nextId' = nextId
       /\ last'.write = "none"
       /\ (HasKey(data, "periods") /\ HasKey(data, "current_period")) =>
            /\ last'.exc = "none"
            /\ ~KnownExport(last', data) => last'.val = <<>>
            /\ KnownExport(last', data) =>
                 /\ last'.val # <<>>
                 /\ last'.val = ExportOf(last', data').val]_vars

\* a summary export of a period that does not exist, while another one is
\* current and holds a goal
C24_Witness ==
  /\ last.op = "export_csv_summary"
  /\ last.arg[1] \in PeriodNames
  /\ ~KnownExport(last, data)
  /\ Selected(data)
  /\ CurrentGoals(data) # <<>>
  /\ last.val = <<>>

\* ------------------------------------------------------- period isolation
GoalItemOps ==
  {"add_goal", "delete_goal", "add_achievement_item", "update_achievement_item",
   "delete_achievement_item"}
\* the goal ids of the periods of d other than the current one
OtherPeriodGoalIds(d) ==
  UNION {IdsOf(d.periods[n].goals) \cup DOMAIN d.periods[n].achievements :
         n \in DOMAIN d.periods \ {d.current_period}}
\* g is the id of a goal of another period and of nothing in the current one
OnlyElsewhere(d, g) ==
  /\ g \in OtherPeriodGoalIds(d)
  /\ g \notin IdsOf(CurrentGoals(d))
  /\ g \notin DOMAIN CurrentAchievements(d)

\* C26: a goal or item operation leaves the names of the periods, the current
\* period and the goals and achievements of every other period as they were;
\* given the id of a goal that only another period holds it changes nothing
\* and returns what it returns for an id no goal has (True for delete_goal,
\* False for the item operations).
C26_OnlyCurrentPeriodChanges ==
  [][(last = Idle /\ last'.op \in GoalItemOps) =>
       /\ last'.exc = "none"
       /\ DOMAIN data'.periods = DOMAIN data.periods
       /\ data'.current_period = data.current_period
       /\ \A n \in DOMAIN data.periods \ {data.current_period} :
            data'.periods[n] = data.periods[n]
       /\ (last'.op # "add_goal" /\ OnlyElsewhere(data, last'.arg[1])) =>
            /\ data' = data
            /\ last'.ret = IF last'.op = "delete_goal" THEN "True" ELSE "False"]_vars

\* delete_goal was given the id of a goal of another period, which still has it
C26_Witness ==
  /\ last.op = "delete_goal"
  /\ last.ret = "True"
  /\ Selected(data)
  /\ OnlyElsewhere(data, last.arg[1])
  /\ \E n \in DOMAIN data.periods \ {data.current_period} :
       /\ last.arg[1] \in IdsOf(data.periods[n].goals)
       /\ last.arg[1] \in DOMAIN data.periods[n].achievements

\* ------------------------------------------------- achievements and goals
\* the goal ids of a goal list are pairwise distinct
DistinctIds(goals) ==
  \A i, j \in 1..Len(goals) : goals[i].id = goals[j].id => i = j

\* C27: in every period of the document the keys of achievements are exactly
\* the ids of the goals of the goal list, and no two goals share an id.
C27_KeysMatchGoals ==
  (data # NoInstance /\ HasKey(data, "periods")) =>
    \A n \in DOMAIN data.periods :
      /\ DOMAIN data.periods[n].achievements = IdsOf(data.periods[n].goals)
      /\ DistinctIds(data.periods[n].goals)

\* ------------------------------------------------------ read operations
ReadOps ==
  {"calculate_achievement_rate", "get_statistics", "export_csv_summary",
   "export_csv_detailed"}

\* C28: a read operation leaves the in-memory document as it found it.
C28_ReadsLeaveDocument ==
  [][(last = Idle /\ last'.op \in ReadOps) => data' = data]_vars

\* ------------------------------------------------------------ value ranges
TotalsInRange(d) ==
  \A n \in DOMAIN PeriodsOf(d) : \A g \in DOMAIN d.periods[n].achievements :
    /\ d.periods[n].achievements[g].total_percentage >= 0
    /\ d.periods[n].achievements[g].total_percentage <= 100
\* every goal of the current period has the total 100
AllGoalsComplete(d) ==
  \A k \in 1..Len(CurrentGoals(d)) :
    TotalPercentageOf(CurrentAchievements(d), CurrentGoals(d)[k].id) = 100

\* C29 as stated: with weights in 1..10 and percentages in 0..100 every total
\* and every returned rate lies in 0..100, and the rate is 100 exactly when
\* every goal of the current period has the total 100.
C29_RangeAsStated ==
  /\ TotalsInRange(data)
  /\ RateReturned =>
       /\ last.val[2] > 0
       /\ 0 <= last.val[1] /\ last.val[1] <= 100 * last.val[2]
       /\ FractionIs(last.val, 100, 1) <=> AllGoalsComplete(data)

\* C29: with weights in 1..10 and percentages in 0..100 every total and every
\* returned rate lies in 0..100, and the rate is 100 exactly when the current
\* period has a goal and every goal of it has the total 100.
C29_RangeAmended ==
  /\ TotalsInRange(data)
  /\ RateReturned =>
       /\ last.val[2] > 0
       /\ 0 <= last.val[1] /\ last.val[1] <= 100 * last.val[2]
       /\ FractionIs(last.val, 100, 1)
            <=> (CurrentGoals(data) # <<>> /\ AllGoalsComplete(data))

\* the rate 100 is returned for a goal whose two items add up to more than 100
C29_Witness ==
  /\ RateReturned
  /\ FractionIs(last.val, 100, 1)
  /\ \E k \in 1..Len(CurrentGoals(data)) :
       LET items == ItemsOfGoal(CurrentAchievements(data), CurrentGoals(data)[k].id)
       IN Len(items) = 2 /\ items[1].percentage + items[2].percentage > 100

\* ---------------------------------------------------- migration keeps data
\* the legacy document a migrating load reads from the store file f
StoredLegacy(f) == json_loads(f)
\* the contents of the items of goal g in period n of d
ContentsOf(d, n, g) ==
  IF g \in DOMAIN d.periods[n].achievements
  THEN {d.periods[n].achievements[g].items[i].content :
          i \in DOMAIN d.periods[n].achievements[g].items}
  ELSE {}
\* what a migration keeps whatever the texts are: the period names, the goal
\* lists, the selection, the settings, and the version tag 2.0
CarriedOver(old, d) ==
  /\ DOMAIN d.periods = DOMAIN old.periods
  /\ \A n \in DOMAIN old.periods : d.periods[n].goals = old.periods[n].goals
  /\ d.current_period = old.current_period
  /\ d.settings = old.settings
  /\ d.version = "2.0"

\* C30 as stated: the document a migrating load builds has the period names,
\* goal lists, current_period and settings of the stored legacy document and
\* the version 2.0, and every legacy achievement text is the content of an
\* item of the same goal in the same period.
C30_MigrationKeepsAsStated ==
  [][(Loaded /\ last'.migrated) =>
       /\ CarriedOver(StoredLegacy(file), data')
       /\ \A n \in DOMAIN StoredLegacy(file).periods :
            \A g \in DOMAIN OldAchievements(StoredLegacy(file).periods[n]) :
              OldAchievements(StoredLegacy(file).periods[n])[g] \in ContentsOf(data', n, g)]_vars

\* C30: the document a migrating load builds has the period names, goal lists,
\* current_period and settings of the stored legacy document and the version
\* 2.0, and every legacy achievement text that is not blank is the content of
\* an item of the same goal in the same period; a blank one gives no item.
C30_MigrationKeepsAmended ==
  [][(Loaded /\ last'.migrated) =>
       /\ CarriedOver(StoredLegacy(file), data')
       /\ \A n \in DOMAIN StoredLegacy(file).periods :
            \A g \in DOMAIN OldAchievements(StoredLegacy(file).periods[n]) :
              LET text == OldAchievements(StoredLegacy(file).periods[n])[g]
              IN IF text \in {"", "  "} THEN ContentsOf(data', n, g) = {}
                 ELSE text \in ContentsOf(data', n, g)]_vars

\* a load has migrated the legacy store: the settings, the selection and the
\* three goals are there, goal 101 holds its text and goal 102, whose text
\* was blank, holds nothing
C30_Witness ==
  /\ last.op = "load_data"
  /\ last.migrated
  /\ data.settings = [claude_api_key |-> "sk-1"]
  /\ data.current_period = "2024-Q1"
  /\ Len(data.periods["2024-Q1"].goals) = 3
  /\ ContentsOf(data, "2024-Q1", 101) = {"Shipped v1"}
  /\ ContentsOf(data, "2024-Q1", 102) = {}

\* ------------------------------------------------------------ lost update
\* both processes have changed the document and no write is under way
BothWrote == \A p \in Procs : procs[p].pc = "ready" /\ procs[p].wrote > 0
LastWriter == CHOOSE p \in Procs : procs[p].wrote = LastWrite

\* C25: once both processes have made a mutation that returned, the store file
\* holds the document of the process whose write ended last, whatever the
\* interleaving, and both were told True.
C25_LastWriteWins ==
  BothWrote =>
    /\ file = json_dumps(procs[LastWriter].d)
    /\ \A p \in Procs : procs[p].ret = "True"

====
